---- MODULE Spec2Model ----
(***************************************************************************)
(* A model of the binary codecs of mao-merge-45m / nro45-merge.            *)
(*                                                                         *)
(* Part 1: the correlator codec of src/mao_merge_45m/correlator.py:        *)
(*         to_zarr (VDIF byte stream -> Zarr store of three arrays) and    *)
(*         to_vdif (the store -> byte stream), one action per statement    *)
(*         that touches a file, the store or a loop variable.              *)
(*                                                                         *)
(* Numbers.  TLC's integers are 32-bit signed, a uint32 of the program is  *)
(* not.  A uint32 is therefore held as its two base-65536 digits           *)
(* <<lo, hi>> (value lo + 65536 * hi); an int16 is a plain integer in      *)
(* -32768 .. 32767; a byte is an integer in 0 .. 255.                      *)
(***************************************************************************)
EXTENDS Integers, Sequences, FiniteSets, TLC

VARIABLES
    pc,         \* position of the running call ("idle" between calls)
    err,        \* the exception that ended the last call, or "none"
    crashed,    \* TRUE once the process was killed in the middle of a call
    io,         \* the file-system operations of the running call, in order
    args,       \* keyword arguments of the running call
    vdif_file,  \* path_vdif of to_zarr: [size, pat], byte o is SrcByte(vdif_file, o)
    zarr,       \* the Zarr store at path_zarr
    dest0,      \* the destination as it was when the call was made (history)
    f_pos,      \* read position of f = open(path_vdif, "rb")
    n_units,    \* local of to_zarr
    n_chunks,   \* local of to_zarr
    i,          \* chunk loop variable of to_zarr / unit loop variable of to_vdif
    a,          \* which of the three arrays the next statement handles (1..3)
    vdif_head,  \* local list of to_zarr
    corr_head,  \* local list of to_zarr
    corr_data,  \* local list of to_zarr
    out_file    \* path_vdif of to_vdif: [exists, bytes]

corrVars == <<pc, err, crashed, io, args, vdif_file, zarr, dest0, f_pos,
              n_units, n_chunks, i, a, vdif_head, corr_head, corr_data,
              out_file>>

\* moveVars: the operations a destination-exists check guards besides the
\* correlator codec (accelerometer.to_zarr and the two merge functions)
VARIABLES
    dest,       \* the destination path of the call: [exists, content]
    corr_store  \* merge: the correlator store (it exists), as the list of what
                \* was written into it

guardVars == <<dest, corr_store>>

\* slice_binary
VARIABLES
    val,        \* the integer handed to slice_binary: a uint32, as <<lo, hi>>
    slice_,     \* the slice handed to it: [start, stop]
    sb_ret      \* what the call did: not called yet, a returned integer, or raised

bitVars == <<val, slice_, sb_ret>>

\* convert
VARIABLES
    cv_pc,      \* position of the running call of convert
    cv_err,     \* the exception that ended it, or "none"
    cv_args,    \* its keyword arguments
    raw,        \* the raw Zarr store it reads: [n_units, mode, w0, w1]
    fmt_zarr,   \* the formatted Zarr store at path_fmt_zarr: [exists, content]
    time,       \* local of convert: the time array, one entry per scan
    correlator  \* local of convert: the complex array, a dask array that is
                \* computed when it is written: [shape, of]

convVars == <<cv_pc, cv_err, cv_args, raw, fmt_zarr, time, correlator>>

\* the accelerometer (GBD) reader
VARIABLES
    gbd,          \* the GBD file at path: [lead, text, pad, payload]
    g_pc,         \* position of the running call
    g_op,         \* the function that was called
    g_err,        \* the exception that ended the call, or "none"
    g_ret,        \* what the call returned
    header_rows,  \* local of get_header
    g_row,        \* get_header: the number of rows handled by the for loop
    section,      \* local of get_header
    toml_rows,    \* local of get_header
    header,       \* local of get_data
    names,        \* local of get_data
    units,        \* local of get_data
    scales,       \* local of get_data
    length_,      \* local of get_data: length
    index,        \* local of get_data
    format_,      \* get_data_reader: the format of the Struct behind read
    data,         \* local of get_data: one row per sample
    g_i           \* get_data: the loop variable i

gbdVars == <<gbd, g_pc, g_op, g_err, g_ret, header_rows, g_row, section,
             toml_rows, header, names, units, scales, length_, index, format_,
             data, g_i>>

\* weather.convert
VARIABLES
    wx_csv,     \* the CSV files at path_csv, each a sequence of rows
    wx_args,    \* the keyword arguments: [overwrite, progress]
    wx_dest,    \* the Zarr store at path_zarr: [exists, samples]
    wx_pc,      \* position of the running call
    wx_err,     \* the exception that ended it, or "none"
    wx_df,      \* local of convert: df
    wx_k        \* the number of paths the for loop has handled

wxVars == <<wx_csv, wx_args, wx_dest, wx_pc, wx_err, wx_df, wx_k>>

vars == <<corrVars, guardVars, bitVars, convVars, gbdVars, wxVars>>

notCorrVars == <<guardVars, bitVars, convVars, gbdVars, wxVars>>

(***************************************************************************)
(* Format constants (correlator.py:26-34).                                 *)
(***************************************************************************)
UINT == "I"
SHORT == "h"
N_ROWS_VDIF_HEAD == 8
N_ROWS_CORR_HEAD == 64
N_ROWS_CORR_DATA == 512
N_BYTES_PER_UNIT == 1312

(***************************************************************************)
(* Bounds of the model.                                                    *)
(*   UnitsPerSecond stands for N_UNITS_PER_SECOND = 6400 (correlator.py:34)*)
(*   scaled down so that a whole chunk fits in a checkable state; the code *)
(*   uses the constant only as the factor of n_units_per_chunk, and every  *)
(*   formula below is stated in terms of it.                               *)
(***************************************************************************)
UnitsPerSecond == 2
MaxSeconds == 2
MaxSecondsPerChunk == 2

N_UNITS_PER_SECOND == UnitsPerSecond

Min(x, y) == IF x < y THEN x ELSE y

(***************************************************************************)
(* Files.  A source file is its size and a generator of its bytes, so that *)
(* every offset holds a byte that depends on the offset: consecutive units *)
(* and the three sub-records of a unit all differ.                         *)
(***************************************************************************)
Patterns == { [mul |-> 37, add |-> 11], [mul |-> 201, add |-> 250] }

Remainders == {0, 1, N_BYTES_PER_UNIT - 1}

SrcByte(file, o) == (file.pat.mul * o + file.pat.add + (o \div 7)) % 256

SourceFiles ==
    { [size |-> N_BYTES_PER_UNIT * u + r, pat |-> p] :
        u \in 0 .. (UnitsPerSecond * MaxSeconds), r \in Remainders, p \in Patterns }

\* f.read(n) at position pos: at most n bytes, fewer at the end of the file
f_read(file, pos, n) ==
    [j \in 1 .. Min(n, file.size - pos) |-> SrcByte(file, pos + j - 1)]

(***************************************************************************)
(* struct.Struct("<" + dtype * n_repeat)                                   *)
(***************************************************************************)
ItemSize(dtype) == IF dtype = UINT THEN 4 ELSE 2

StructSize(n_repeat, dtype) == n_repeat * ItemSize(dtype)

\* one little-endian "I": four bytes to a uint32, as <<lo, hi>>
unpack_I(b, k) == << b[k + 1] + 256 * b[k + 2], b[k + 3] + 256 * b[k + 4] >>

\* a variant of unpack_h that reads the two bytes as unsigned ("H")
unpack_h_unsigned(b, k) == b[k + 1] + 256 * b[k + 2]

\* one little-endian "h": two bytes to a signed 16-bit integer
unpack_h(b, k) ==
    LET u == b[k + 1] + 256 * b[k + 2]
    IN  IF u >= 32768 THEN u - 65536 ELSE u

\* struct.unpack: the tuple of n_repeat values; struct.error (no tuple) when
\* the buffer does not hold exactly struct.size bytes
struct_unpack(n_repeat, dtype, b) ==
    IF Len(b) # StructSize(n_repeat, dtype)
    THEN [error |-> TRUE, tuple |-> << >>]
    ELSE [error |-> FALSE,
          tuple |-> [j \in 1 .. n_repeat |->
                       IF dtype = UINT THEN unpack_I(b, 4 * (j - 1))
                                       ELSE unpack_h(b, 2 * (j - 1))]]

\* reader(f) of make_binary_reader(n_repeat, dtype), f at position pos
reader(n_repeat, dtype, file, pos) ==
    struct_unpack(n_repeat, dtype, f_read(file, pos, StructSize(n_repeat, dtype)))

(***************************************************************************)
(* numpy: row.tobytes() of a row of the store (native byte order, which is *)
(* little-endian on the hosts numpy and zarr run on).                      *)
(***************************************************************************)
\* a variant of item_bytes that writes the most significant byte first
item_bytes_big_endian(v, dtype) ==
    IF dtype = UINT
    THEN << v[2] \div 256, v[2] % 256, v[1] \div 256, v[1] % 256 >>
    ELSE LET u == IF v < 0 THEN v + 65536 ELSE v
         IN  << u \div 256, u % 256 >>

item_bytes(v, dtype) ==
    IF dtype = UINT
    THEN << v[1] % 256, v[1] \div 256, v[2] % 256, v[2] \div 256 >>
    ELSE LET u == IF v < 0 THEN v + 65536 ELSE v
         IN  << u % 256, u \div 256 >>

tobytes(row, dtype) ==
    [k \in 1 .. (Len(row) * ItemSize(dtype)) |->
        item_bytes(row[((k - 1) \div ItemSize(dtype)) + 1], dtype)
            [((k - 1) % ItemSize(dtype)) + 1]]

(***************************************************************************)
(* The Zarr store: the arrays created so far, by name.  An array is its    *)
(* length along the unit axis, its chunk length and its rows; a row of a   *)
(* chunk that was never written is Unwritten (z.empty allocates nothing;   *)
(* a written row is never the empty tuple).                                *)
(***************************************************************************)
Unwritten == << >>

ArrayNames == << "vdif_head", "corr_head", "corr_data" >>

ArrayDtype == << UINT, UINT, SHORT >>

NoStore == [exists |-> FALSE, arrays |-> << >>]

\* a store left by an earlier conversion of some other file
OldStore ==
    [exists |-> TRUE,
     arrays |-> [n \in {"vdif_head"} |->
                   [shape |-> 1, chunks |-> 1, rows |-> [k \in {0} |-> << <<1, 0>> >>]]]]

\* zarr.open(path, mode="w"): an empty group, whatever was there before
zarr_open_w == [exists |-> TRUE, arrays |-> << >>]

\* z.empty(name=..., shape=(n, rows), chunks=(c, rows), dtype=...)
z_empty(z, name, n, c) ==
    [z EXCEPT !.arrays =
        (name :> [shape |-> n, chunks |-> c, rows |-> [k \in 0 .. n - 1 |-> Unwritten]])
            @@ z.arrays]

\* z.<name>[lo:hi] = values
z_setitem(z, name, lo, hi, values) ==
    [z EXCEPT !.arrays[name].rows =
        [k \in DOMAIN @ |-> IF lo <= k /\ k < hi THEN values[k - lo + 1] ELSE @[k]]]

NoFile == [exists |-> FALSE, bytes |-> << >>]

OldFile == [exists |-> TRUE, bytes |-> << 170, 85, 170 >>]

\* the destination of accelerometer.to_zarr and of merge: an xarray dataset
\* store, held as the list of the datasets written into it
NoDest == [exists |-> FALSE, content |-> << >>]

OldDest == [exists |-> TRUE, content |-> << "old" >>]

(***************************************************************************)
(* Start: no call is running.  The source file, the store at path_zarr and *)
(* the file at the output path of to_vdif are whatever the caller has.     *)
(***************************************************************************)
NoArgs == [op |-> "none"]

InitCorr ==
    /\ pc = "idle"
    /\ err = "none"
    /\ crashed = FALSE
    /\ io = << >>
    /\ args = NoArgs
    /\ vdif_file \in SourceFiles
    /\ zarr \in {NoStore, OldStore}
    /\ dest0 = NoStore
    /\ f_pos = 0
    /\ n_units = 0
    /\ n_chunks = 0
    /\ i = 0
    /\ a = 1
    /\ vdif_head = << >>
    /\ corr_head = << >>
    /\ corr_data = << >>
    /\ out_file \in {NoFile, OldFile}
    /\ dest \in {NoDest, OldDest}
    /\ corr_store = << "correlator" >>
    \* Parts 1 and 2 share no file: the destination of Part 2 is varied in
    \* one environment of Part 1 instead of in all of them
    /\ \/ dest = NoDest
       \/ /\ vdif_file = [size |-> 0, pat |-> [mul |-> 37, add |-> 11]]
          /\ zarr = NoStore
          /\ out_file = NoFile

\* no converter and no merge is ever called
IdleCorr ==
    /\ pc = "off"
    /\ err = "none"
    /\ crashed = FALSE
    /\ io = << >>
    /\ args = NoArgs
    /\ vdif_file = [size |-> 0, pat |-> [mul |-> 37, add |-> 11]]
    /\ zarr = NoStore
    /\ dest0 = NoStore
    /\ f_pos = 0
    /\ n_units = 0
    /\ n_chunks = 0
    /\ i = 0
    /\ a = 1
    /\ vdif_head = << >>
    /\ corr_head = << >>
    /\ corr_data = << >>
    /\ out_file = NoFile
    /\ dest = NoDest
    /\ corr_store = << "correlator" >>

(***************************************************************************)
(* to_zarr (correlator.py:171-272)                                         *)
(***************************************************************************)
\* a variant of tqdm whose bar, when shown, swallows the last item
tqdm_short(n_items, disable) ==
    IF disable \/ n_items = 0 THEN n_items ELSE n_items - 1

\* tqdm(iterable, disable=): the number of items the wrapper yields; it
\* yields the items of the iterable, in their order, shown or not
tqdm(n_items, disable) == n_items

n_units_per_chunk == N_UNITS_PER_SECOND * args.seconds_per_chunk

Raise(e) ==
    /\ pc' = "raised"
    /\ err' = e

\* the call: to_zarr(path_vdif, path_zarr, seconds_per_chunk=, overwrite=,
\* progress=)
Call_to_zarr ==
    /\ pc = "idle"
    /\ args = NoArgs
    /\ \E s \in 1 .. MaxSecondsPerChunk, o \in BOOLEAN, p \in BOOLEAN :
          args' = [op |-> "to_zarr", seconds_per_chunk |-> s, overwrite |-> o,
                   progress |-> p]
    /\ pc' = "tz_exists"
    /\ dest0' = zarr
    /\ io' = << >>
    /\ UNCHANGED <<err, crashed, vdif_file, zarr, f_pos, n_units, n_chunks,
                   i, a, vdif_head, corr_head, corr_data, out_file>>
    /\ UNCHANGED notCorrVars

\* a variant of to_zarr_exists that opens the store as soon as the check passes
to_zarr_exists_open_first ==
    /\ pc = "tz_exists"
    /\ io' = Append(io, <<"exists", "path_zarr">>)
    /\ IF zarr.exists /\ ~args.overwrite
       THEN Raise("FileExistsError") /\ zarr' = zarr
       ELSE pc' = "tz_stat" /\ err' = err /\ zarr' = zarr_open_w
    /\ UNCHANGED <<crashed, args, vdif_file, dest0, f_pos, n_units,
                   n_chunks, i, a, vdif_head, corr_head, corr_data, out_file>>
    /\ UNCHANGED notCorrVars

\* lines 211-212: if path_zarr.exists() and not overwrite: raise
to_zarr_exists ==
    /\ pc = "tz_exists"
    /\ io' = Append(io, <<"exists", "path_zarr">>)
    /\ IF zarr.exists /\ ~args.overwrite
       THEN Raise("FileExistsError")
       ELSE pc' = "tz_stat" /\ err' = err
    /\ UNCHANGED <<crashed, args, vdif_file, zarr, dest0, f_pos, n_units,
                   n_chunks, i, a, vdif_head, corr_head, corr_data, out_file>>
    /\ UNCHANGED notCorrVars

\* a variant of to_zarr_stat that drops the remainder of the division
to_zarr_stat_unchecked ==
    /\ pc = "tz_stat"
    /\ io' = Append(io, <<"stat", "path_vdif">>)
    /\ n_units' = vdif_file.size \div N_BYTES_PER_UNIT
    /\ pc' = "tz_divmod"
    /\ UNCHANGED <<err, crashed, args, vdif_file, zarr, dest0, f_pos,
                   n_chunks, i, a, vdif_head, corr_head, corr_data, out_file>>
    /\ UNCHANGED notCorrVars

\* lines 215-218: divmod(path_vdif.stat().st_size, N_BYTES_PER_UNIT)
to_zarr_stat ==
    /\ pc = "tz_stat"
    /\ io' = Append(io, <<"stat", "path_vdif">>)
    /\ n_units' = vdif_file.size \div N_BYTES_PER_UNIT
    /\ IF vdif_file.size % N_BYTES_PER_UNIT # 0
       THEN Raise("RuntimeError: may be truncated")
       ELSE pc' = "tz_divmod" /\ err' = err
    /\ UNCHANGED <<crashed, args, vdif_file, zarr, dest0, f_pos,
                   n_chunks, i, a, vdif_head, corr_head, corr_data, out_file>>
    /\ UNCHANGED notCorrVars

\* a variant of to_zarr_divmod that drops the remainder of the division
to_zarr_divmod_unchecked ==
    /\ pc = "tz_divmod"
    /\ n_chunks' = n_units \div n_units_per_chunk
    /\ pc' = "tz_open"
    /\ UNCHANGED <<err, crashed, io, args, vdif_file, zarr, dest0, f_pos, n_units,
                   i, a, vdif_head, corr_head, corr_data, out_file>>
    /\ UNCHANGED notCorrVars

\* lines 220-224: divmod(n_units, n_units_per_chunk)
to_zarr_divmod ==
    /\ pc = "tz_divmod"
    /\ n_chunks' = n_units \div n_units_per_chunk
    /\ IF n_units % n_units_per_chunk # 0
       THEN Raise("RuntimeError: chunk length")
       ELSE pc' = "tz_open" /\ err' = err
    /\ UNCHANGED <<crashed, io, args, vdif_file, zarr, dest0, f_pos, n_units,
                   i, a, vdif_head, corr_head, corr_data, out_file>>
    /\ UNCHANGED notCorrVars

\* line 227: z = zarr.open(str(path_zarr), mode="w")
to_zarr_open ==
    /\ pc = "tz_open"
    /\ io' = Append(io, <<"open_w", "path_zarr">>)
    /\ zarr' = zarr_open_w
    /\ a' = 1
    /\ pc' = "tz_empty"
    /\ UNCHANGED <<err, crashed, args, vdif_file, dest0, f_pos, n_units,
                   n_chunks, i, vdif_head, corr_head, corr_data, out_file>>
    /\ UNCHANGED notCorrVars

\* lines 228-245: the three z.empty(...) calls, in source order
to_zarr_empty ==
    /\ pc = "tz_empty"
    /\ io' = Append(io, <<"empty", ArrayNames[a]>>)
    /\ zarr' = z_empty(zarr, ArrayNames[a], n_units, n_units_per_chunk)
    /\ IF a < 3
       THEN a' = a + 1 /\ pc' = pc
       ELSE a' = 1 /\ pc' = "tz_open_vdif"
    /\ UNCHANGED <<err, crashed, args, vdif_file, dest0, f_pos, n_units,
                   n_chunks, i, vdif_head, corr_head, corr_data, out_file>>
    /\ UNCHANGED notCorrVars

\* line 252: with open(path_vdif, "rb") as f
to_zarr_open_vdif ==
    /\ pc = "tz_open_vdif"
    /\ io' = Append(io, <<"open_r", "path_vdif">>)
    /\ f_pos' = 0
    /\ i' = 0
    /\ pc' = "tz_for"
    /\ UNCHANGED <<err, crashed, args, vdif_file, zarr, dest0, n_units,
                   n_chunks, a, vdif_head, corr_head, corr_data, out_file>>
    /\ UNCHANGED notCorrVars

\* lines 253-256: for i in tqdm(range(n_chunks), disable=not progress): the
\* three lists start empty
to_zarr_for ==
    /\ pc = "tz_for"
    /\ IF i < tqdm(n_chunks, ~args.progress)
       THEN /\ vdif_head' = << >>
            /\ corr_head' = << >>
            /\ corr_data' = << >>
            /\ pc' = "tz_read"
       ELSE /\ pc' = "tz_return"
            /\ UNCHANGED <<vdif_head, corr_head, corr_data>>
    /\ UNCHANGED <<err, crashed, io, args, vdif_file, zarr, dest0, f_pos,
                   n_units, n_chunks, i, a, out_file>>
    /\ UNCHANGED notCorrVars

\* lines 258-261: one pass of the inner loop reads one unit, three records
to_zarr_read ==
    /\ pc = "tz_read"
    /\ LET s1 == StructSize(N_ROWS_VDIF_HEAD, UINT)
           s2 == StructSize(N_ROWS_CORR_HEAD, UINT)
           s3 == StructSize(N_ROWS_CORR_DATA, SHORT)
           r1 == reader(N_ROWS_VDIF_HEAD, UINT, vdif_file, f_pos)
           p2 == Min(f_pos + s1, vdif_file.size)
           r2 == reader(N_ROWS_CORR_HEAD, UINT, vdif_file, p2)
           p3 == Min(p2 + s2, vdif_file.size)
           r3 == reader(N_ROWS_CORR_DATA, SHORT, vdif_file, p3)
           p4 == Min(p3 + s3, vdif_file.size)
       IN  IF r1.error \/ r2.error \/ r3.error
           THEN /\ Raise("struct.error")
                /\ UNCHANGED <<io, f_pos, vdif_head, corr_head, corr_data>>
           ELSE /\ io' = io \o << <<"read", "path_vdif", f_pos, s1>>,
                                  <<"read", "path_vdif", p2, s2>>,
                                  <<"read", "path_vdif", p3, s3>> >>
                /\ f_pos' = p4
                /\ vdif_head' = Append(vdif_head, r1.tuple)
                /\ corr_head' = Append(corr_head, r2.tuple)
                /\ corr_data' = Append(corr_data, r3.tuple)
                /\ err' = err
                /\ pc' = IF Len(vdif_head) + 1 < n_units_per_chunk
                         THEN "tz_read" ELSE "tz_write"
    /\ UNCHANGED <<crashed, args, vdif_file, zarr, dest0, n_units, n_chunks,
                   i, a, out_file>>
    /\ UNCHANGED notCorrVars

\* a variant of to_zarr_write whose slice does not advance with the chunk
to_zarr_write_first_slice ==
    /\ pc = "tz_write"
    /\ LET lo == 0
           hi == n_units_per_chunk
           values == << vdif_head, corr_head, corr_data >>
       IN  /\ io' = Append(io, <<"write", ArrayNames[a], lo, hi>>)
           /\ zarr' = z_setitem(zarr, ArrayNames[a], lo, hi, values[a])
    /\ IF a < 3
       THEN a' = a + 1 /\ pc' = pc /\ i' = i
       ELSE a' = 1 /\ pc' = "tz_for" /\ i' = i + 1
    /\ UNCHANGED <<err, crashed, args, vdif_file, dest0, f_pos, n_units,
                   n_chunks, vdif_head, corr_head, corr_data, out_file>>
    /\ UNCHANGED notCorrVars

\* lines 263-270: index = slice(i * c, (i + 1) * c); z.<array>[index] = <list>,
\* one store write per array, in source order
to_zarr_write ==
    /\ pc = "tz_write"
    /\ LET lo == (i + 0) * n_units_per_chunk
           hi == (i + 1) * n_units_per_chunk
           values == << vdif_head, corr_head, corr_data >>
       IN  /\ io' = Append(io, <<"write", ArrayNames[a], lo, hi>>)
           /\ zarr' = z_setitem(zarr, ArrayNames[a], lo, hi, values[a])
    /\ IF a < 3
       THEN a' = a + 1 /\ pc' = pc /\ i' = i
       ELSE a' = 1 /\ pc' = "tz_for" /\ i' = i + 1
    /\ UNCHANGED <<err, crashed, args, vdif_file, dest0, f_pos, n_units,
                   n_chunks, vdif_head, corr_head, corr_data, out_file>>
    /\ UNCHANGED notCorrVars

\* line 272: return path_zarr
to_zarr_return ==
    /\ pc = "tz_return"
    /\ pc' = "tz_done"
    /\ UNCHANGED <<err, crashed, io, args, vdif_file, zarr, dest0, f_pos,
                   n_units, n_chunks, i, a, vdif_head, corr_head, corr_data,
                   out_file>>
    /\ UNCHANGED notCorrVars

Running_to_zarr ==
    pc \in {"tz_exists", "tz_stat", "tz_divmod", "tz_open", "tz_empty",
            "tz_open_vdif", "tz_for", "tz_read", "tz_write", "tz_return"}

\* the process is killed while to_zarr runs: the store stays as it is
Crash ==
    /\ Running_to_zarr
    /\ crashed' = TRUE
    /\ pc' = "crashed"
    /\ UNCHANGED <<err, io, args, vdif_file, zarr, dest0, f_pos, n_units,
                   n_chunks, i, a, vdif_head, corr_head, corr_data, out_file>>
    /\ UNCHANGED notCorrVars

(***************************************************************************)
(* to_vdif (correlator.py:275-322), called on the store to_zarr returned   *)
(***************************************************************************)
\* the call: to_vdif(path_zarr, path_vdif, overwrite=, progress=)
Call_to_vdif ==
    /\ pc = "tz_done"
    /\ \E o \in BOOLEAN, p \in BOOLEAN :
          args' = [op |-> "to_vdif", overwrite |-> o, progress |-> p]
    /\ pc' = "tv_exists"
    /\ io' = << >>
    /\ dest0' = out_file
    /\ UNCHANGED <<err, crashed, vdif_file, zarr, f_pos, n_units,
                   n_chunks, i, a, vdif_head, corr_head, corr_data, out_file>>
    /\ UNCHANGED notCorrVars

\* lines 302-303: if path_vdif.exists() and not overwrite: raise
to_vdif_exists ==
    /\ pc = "tv_exists"
    /\ io' = Append(io, <<"exists", "path_vdif">>)
    /\ IF out_file.exists /\ ~args.overwrite
       THEN Raise("FileExistsError")
       ELSE pc' = "tv_open" /\ err' = err
    /\ UNCHANGED <<crashed, args, vdif_file, zarr, dest0, f_pos, n_units,
                   n_chunks, i, a, vdif_head, corr_head, corr_data, out_file>>
    /\ UNCHANGED notCorrVars

\* lines 306-309: z = zarr.open(str(path_zarr), mode="r") and its three arrays
to_vdif_open ==
    /\ pc = "tv_open"
    /\ io' = Append(io, <<"open_r", "path_zarr">>)
    /\ pc' = "tv_open_vdif"
    /\ UNCHANGED <<err, crashed, args, vdif_file, zarr, dest0, f_pos, n_units,
                   n_chunks, i, a, vdif_head, corr_head, corr_data, out_file>>
    /\ UNCHANGED notCorrVars

\* line 317: with path_vdif.open("wb") as f: the file is created or truncated
to_vdif_open_vdif ==
    /\ pc = "tv_open_vdif"
    /\ io' = Append(io, <<"open_w", "path_vdif">>)
    /\ out_file' = [exists |-> TRUE, bytes |-> << >>]
    /\ i' = 0
    /\ a' = 1
    /\ pc' = "tv_for"
    /\ UNCHANGED <<err, crashed, args, vdif_file, zarr, dest0, f_pos, n_units,
                   n_chunks, vdif_head, corr_head, corr_data>>
    /\ UNCHANGED notCorrVars

\* zip(vdif_head, corr_head, corr_data) yields as many tuples of rows as
\* the shortest of the three arrays has rows
zip_len(z) ==
    Min(z.arrays["vdif_head"].shape,
        Min(z.arrays["corr_head"].shape, z.arrays["corr_data"].shape))

\* lines 311-315, 318: for units in tqdm(zip(...), disable=not progress)
to_vdif_for ==
    /\ pc = "tv_for"
    /\ pc' = IF i < tqdm(zip_len(zarr), ~args.progress)
             THEN "tv_write" ELSE "tv_return"
    /\ UNCHANGED <<err, crashed, io, args, vdif_file, zarr, dest0, f_pos,
                   n_units, n_chunks, i, a, vdif_head, corr_head, corr_data,
                   out_file>>
    /\ UNCHANGED notCorrVars

\* a variant of to_vdif_write that walks the tuple of a unit from its end
to_vdif_write_reversed ==
    /\ pc = "tv_write"
    /\ LET unit == zarr.arrays[ArrayNames[4 - a]].rows[i]
           b == tobytes(unit, ArrayDtype[4 - a])
       IN  /\ io' = Append(io, <<"write", "path_vdif", ArrayNames[4 - a], i, Len(b)>>)
           /\ out_file' = [out_file EXCEPT !.bytes = @ \o b]
    /\ IF a < 3
       THEN a' = a + 1 /\ pc' = pc /\ i' = i
       ELSE a' = 1 /\ pc' = "tv_for" /\ i' = i + 1
    /\ UNCHANGED <<err, crashed, args, vdif_file, zarr, dest0, f_pos, n_units,
                   n_chunks, vdif_head, corr_head, corr_data>>
    /\ UNCHANGED notCorrVars

\* lines 319-320: for unit in units: f.write(unit.tobytes())
to_vdif_write ==
    /\ pc = "tv_write"
    /\ LET unit == zarr.arrays[ArrayNames[a]].rows[i]
           b == tobytes(unit, ArrayDtype[a])
       IN  /\ io' = Append(io, <<"write", "path_vdif", ArrayNames[a], i, Len(b)>>)
           /\ out_file' = [out_file EXCEPT !.bytes = @ \o b]
    /\ IF a < 3
       THEN a' = a + 1 /\ pc' = pc /\ i' = i
       ELSE a' = 1 /\ pc' = "tv_for" /\ i' = i + 1
    /\ UNCHANGED <<err, crashed, args, vdif_file, zarr, dest0, f_pos, n_units,
                   n_chunks, vdif_head, corr_head, corr_data>>
    /\ UNCHANGED notCorrVars

\* line 322: return path_vdif
to_vdif_return ==
    /\ pc = "tv_return"
    /\ pc' = "tv_done"
    /\ UNCHANGED <<err, crashed, io, args, vdif_file, zarr, dest0, f_pos,
                   n_units, n_chunks, i, a, vdif_head, corr_head, corr_data,
                   out_file>>
    /\ UNCHANGED notCorrVars

NextCorr ==
    \/ Call_to_zarr
    \/ to_zarr_exists
    \/ to_zarr_stat
    \/ to_zarr_divmod
    \/ to_zarr_open
    \/ to_zarr_empty
    \/ to_zarr_open_vdif
    \/ to_zarr_for
    \/ to_zarr_read
    \/ to_zarr_write
    \/ to_zarr_return
    \/ Crash
    \/ Call_to_vdif
    \/ to_vdif_exists
    \/ to_vdif_open
    \/ to_vdif_open_vdif
    \/ to_vdif_for
    \/ to_vdif_write
    \/ to_vdif_return

(***************************************************************************)
(* Part 2: the other operations that check their destination first.  The   *)
(* datasets themselves are outside this part: a source that is read is an  *)
(* entry of io, a dataset that is written is a name in the destination.    *)
(***************************************************************************)
notGuardVars == <<crashed, vdif_file, zarr, f_pos, n_units, n_chunks,
                  i, a, vdif_head, corr_head, corr_data, out_file, bitVars,
                  convVars, gbdVars, wxVars>>

\* accelerometer.to_zarr (nro45_merge/accelerometer.py:117-159)
Call_accelerometer_to_zarr ==
    /\ pc = "idle"
    /\ args = NoArgs
    /\ \E o \in BOOLEAN : args' = [op |-> "accelerometer.to_zarr", overwrite |-> o]
    /\ pc' = "az_exists"
    /\ io' = << >>
    /\ dest0' = dest
    /\ UNCHANGED <<err, dest, corr_store>>
    /\ UNCHANGED notGuardVars

\* lines 151-152: if path_zarr.exists() and not overwrite: raise
accelerometer_to_zarr_exists ==
    /\ pc = "az_exists"
    /\ io' = Append(io, <<"exists", "path_zarr">>)
    /\ IF dest.exists /\ ~args.overwrite
       THEN Raise("FileExistsError")
       ELSE pc' = "az_get_data" /\ err' = err
    /\ UNCHANGED <<args, dest, dest0, corr_store>>
    /\ UNCHANGED notGuardVars

\* line 155: data = get_data(path_gbd, encoding, progress): the GBD file is
\* opened and read; get_data returns the table or raises on a file it rejects
accelerometer_to_zarr_get_data ==
    /\ pc = "az_get_data"
    /\ io' = Append(io, <<"read", "path_gbd">>)
    /\ \E accepted \in BOOLEAN :
          IF accepted
          THEN pc' = "az_write" /\ err' = err
          ELSE Raise("get_data error")
    /\ UNCHANGED <<args, dest, dest0, corr_store>>
    /\ UNCHANGED notGuardVars

\* lines 156-159: ds.to_zarr(path_zarr, mode="w"); return path_zarr
accelerometer_to_zarr_write ==
    /\ pc = "az_write"
    /\ io' = Append(io, <<"write", "path_zarr">>)
    /\ dest' = [exists |-> TRUE, content |-> << "accelerometer" >>]
    /\ pc' = "az_done"
    /\ UNCHANGED <<err, args, dest0, corr_store>>
    /\ UNCHANGED notGuardVars

\* merge (mao_merge_45m/merge.py:19-94)
Call_merge ==
    /\ pc = "idle"
    /\ args = NoArgs
    /\ \E o \in BOOLEAN : args' = [op |-> "merge", overwrite |-> o]
    /\ pc' = "mg_exists"
    /\ io' = << >>
    /\ dest0' = dest
    /\ UNCHANGED <<err, dest, corr_store>>
    /\ UNCHANGED notGuardVars

\* a variant of merge_exists that opens the correlator store before the check
merge_exists_after_open ==
    /\ pc = "mg_exists"
    /\ io' = io \o << <<"read", "path_correlator_zarr">>,
                      <<"exists", "path_merged_zarr">> >>
    /\ IF dest.exists /\ ~args.overwrite
       THEN Raise("FileExistsError")
       ELSE pc' = "mg_open" /\ err' = err
    /\ UNCHANGED <<args, dest, dest0, corr_store>>
    /\ UNCHANGED notGuardVars

\* lines 57-58: if path_merged_zarr.exists() and not overwrite: raise
merge_exists ==
    /\ pc = "mg_exists"
    /\ io' = Append(io, <<"exists", "path_merged_zarr">>)
    /\ IF dest.exists /\ ~args.overwrite
       THEN Raise("FileExistsError")
       ELSE pc' = "mg_open" /\ err' = err
    /\ UNCHANGED <<args, dest, dest0, corr_store>>
    /\ UNCHANGED notGuardVars

\* lines 61-84: xr.open_zarr of the correlator store and of the metadata stores
merge_open ==
    /\ pc = "mg_open"
    /\ io' = io \o << <<"read", "path_correlator_zarr">>, <<"read", "metadata">> >>
    /\ pc' = "mg_write"
    /\ UNCHANGED <<err, args, dest, dest0, corr_store>>
    /\ UNCHANGED notGuardVars

\* lines 87-94: correlator.to_zarr(path_merged_zarr, mode="w") (or a ZipStore
\* opened with mode="w"); return path_merged_zarr
merge_write ==
    /\ pc = "mg_write"
    /\ io' = Append(io, <<"write", "path_merged_zarr">>)
    /\ dest' = [exists |-> TRUE, content |-> << "merged" >>]
    /\ pc' = "mg_done"
    /\ UNCHANGED <<err, args, dest0, corr_store>>
    /\ UNCHANGED notGuardVars

\* merge (nro45_merge/merge.py:12-80)
Call_nro45_merge ==
    /\ pc = "idle"
    /\ args = NoArgs
    /\ \E o \in BOOLEAN, p \in BOOLEAN, g \in BOOLEAN :
          args' = [op |-> "nro45_merge.merge", overwrite |-> o, in_place |-> p,
                   path_merge_zarr_given |-> g]
    /\ pc' = "nm_check"
    /\ io' = << >>
    /\ dest0' = dest
    /\ UNCHANGED <<err, dest, corr_store>>
    /\ UNCHANGED notGuardVars

\* lines 43-50: with in_place the destination is the correlator store; a
\* missing destination path is a ValueError; exists() is evaluated only when
\* neither in_place nor overwrite is set
nro45_merge_check ==
    /\ pc = "nm_check"
    /\ IF ~args.in_place /\ ~args.path_merge_zarr_given
       THEN Raise("ValueError") /\ io' = io
       ELSE IF ~args.in_place /\ ~args.overwrite
            THEN /\ io' = Append(io, <<"exists", "path_merge_zarr">>)
                 /\ IF dest.exists
                    THEN Raise("FileExistsError")
                    ELSE pc' = "nm_open" /\ err' = err
            ELSE pc' = "nm_open" /\ err' = err /\ io' = io
    /\ UNCHANGED <<args, dest, dest0, corr_store>>
    /\ UNCHANGED notGuardVars

\* lines 53-63: xr.open_zarr of the three stores
nro45_merge_open ==
    /\ pc = "nm_open"
    /\ io' = io \o << <<"read", "path_correlator_zarr">>,
                      <<"read", "path_accelerometer_zarr">>,
                      <<"read", "path_weather_zarr">> >>
    /\ pc' = "nm_write"
    /\ UNCHANGED <<err, args, dest, dest0, corr_store>>
    /\ UNCHANGED notGuardVars

\* lines 71-80: in place, the log data are appended to the correlator store
\* (mode="a"); otherwise correlator.to_zarr(path_merge_zarr) with xarray's
\* default mode, which creates the store and refuses an existing one
nro45_merge_write ==
    /\ pc = "nm_write"
    /\ IF args.in_place
       THEN /\ io' = Append(io, <<"write", "path_correlator_zarr">>)
            /\ corr_store' = Append(corr_store, "log data")
            /\ pc' = "nm_done"
            /\ UNCHANGED <<err, dest>>
       ELSE IF dest.exists
            THEN /\ Raise("ContainsGroupError")
                 /\ UNCHANGED <<io, dest, corr_store>>
            ELSE /\ io' = Append(io, <<"write", "path_merge_zarr">>)
                 /\ dest' = [exists |-> TRUE, content |-> << "merged" >>]
                 /\ pc' = "nm_done"
                 /\ UNCHANGED <<err, corr_store>>
    /\ UNCHANGED <<args, dest0>>
    /\ UNCHANGED notGuardVars

NextGuard ==
    \/ Call_accelerometer_to_zarr
    \/ accelerometer_to_zarr_exists
    \/ accelerometer_to_zarr_get_data
    \/ accelerometer_to_zarr_write
    \/ Call_merge
    \/ merge_exists
    \/ merge_open
    \/ merge_write
    \/ Call_nro45_merge
    \/ nro45_merge_check
    \/ nro45_merge_open
    \/ nro45_merge_write

(***************************************************************************)
(* Part 3: slice_binary (correlator.py:339-345).                           *)
(*                                                                         *)
(* A Python integer has no width.  A non-negative one is held here as the  *)
(* set of the positions of its 1 bits, on which >>, << and & are what they *)
(* are on the binary digits; uint32 (<<lo, hi>>) and bit set are converted *)
(* into each other by arithmetic.                                          *)
(***************************************************************************)
WordBits == 32

RECURSIVE Pow2(_)
Pow2(n) == IF n = 0 THEN 1 ELSE 2 * Pow2(n - 1)

\* the binary digits of a uint32 held as <<lo, hi>>
BitsOfU32(w) ==
    {k \in 0 .. 15 : (w[1] \div Pow2(k)) % 2 = 1}
        \cup {k + 16 : k \in {j \in 0 .. 15 : (w[2] \div Pow2(j)) % 2 = 1}}

RECURSIVE SumPow2(_)
SumPow2(S) ==
    IF S = {} THEN 0
    ELSE LET k == CHOOSE x \in S : TRUE IN Pow2(k) + SumPow2(S \ {k})

\* the integer below 2^32 with the given binary digits, as <<lo, hi>>
U32OfBits(S) ==
    << SumPow2({k \in S : k < 16}), SumPow2({k - 16 : k \in {j \in S : j >= 16}}) >>

\* x >> n and x << n raise ValueError("negative shift count") for n < 0
ShiftRight(S, n) == {k - n : k \in {j \in S : j >= n}}

ShiftLeft(S, n) == {k + n : k \in S}

\* x - 1 for x a power of two
MinusOne(S) == 0 .. ((CHOOSE k \in S : TRUE) - 1)

BitAnd(S, T) == S \cap T

One == {0}

Raised(e) == [raised |-> TRUE, error |-> e, value |-> {}]

Returned(v) == [raised |-> FALSE, error |-> "none", value |-> v]

\* a variant of slice_binary that masks with (1 << stop) - 1
slice_binary_mask_stop(v, sl) ==
    LET start == sl.start
        stop == sl.stop
    IN  IF start < 0 \/ stop < 0
        THEN Raised("ValueError")
        ELSE Returned(BitAnd(ShiftRight(v, start), MinusOne(ShiftLeft(One, stop))))

\* a variant of slice_binary that rejects an empty range and a range that
\* ends above bit 32
slice_binary_checked(v, sl) ==
    LET start == sl.start
        stop == sl.stop
        length == stop - start
    IN  IF start < 0 \/ length <= 0 \/ stop > 32
        THEN Raised("ValueError")
        ELSE Returned(BitAnd(ShiftRight(v, start), MinusOne(ShiftLeft(One, length))))

\* lines 341-345: (val >> start) & ((1 << length) - 1), left operand first
slice_binary(v, sl) ==
    LET start == sl.start
        stop == sl.stop
        length == stop - start
    IN  IF start < 0
        THEN Raised("ValueError")
        ELSE IF length < 0
             THEN Raised("ValueError")
             ELSE Returned(BitAnd(ShiftRight(v, start),
                                  MinusOne(ShiftLeft(One, length))))

\* the words and the ranges slice_binary is called with
Words ==
    { <<0, 0>>, <<1, 0>>, <<180, 0>>, <<65535, 65535>>, <<0, 32768>>,
      <<22136, 37428>>, <<43690, 21845>>, <<65535, 32767>> }

Slices == [start : -1 .. WordBits + 1, stop : -1 .. WordBits + 2]

NotCalled == [raised |-> FALSE, error |-> "not called", value |-> {}]

InitBits ==
    /\ val \in Words
    /\ slice_ \in Slices
    /\ sb_ret = NotCalled

IdleBits ==
    /\ val = <<0, 0>>
    /\ slice_ = [start |-> 0, stop |-> 0]
    /\ sb_ret = NotCalled

\* the call slice_binary(val, slice_)
Call_slice_binary ==
    /\ sb_ret = NotCalled
    /\ sb_ret' = slice_binary(BitsOfU32(val), slice_)
    /\ UNCHANGED <<val, slice_>>
    /\ UNCHANGED <<corrVars, guardVars, convVars, gbdVars, wxVars>>


(***************************************************************************)
(* Part 4: convert (correlator.py:54-168), the time axis.                  *)
(*                                                                         *)
(* The raw store is read, never written: its vdif_head array is a function *)
(* of the unit and word index.  Three kinds of stores: every unit with the *)
(* same header; the seconds of word 0 advancing every 6400 units; and,     *)
(* besides, a frame counter in the low bits of word 1.                     *)
(***************************************************************************)
N_UNITS_PER_SCAN == 64
N_SCANS_PER_SECOND == 100
SLICE_MONTH == [start |-> 24, stop |-> 30]
SLICE_SECOND == [start |-> 0, stop |-> 30]
REF_YEAR == 2000
UNIT_MONTH == 6
UNIT_SECOND == 1
UNIT_MILLISECOND == 10

MaxRawSeconds == 2

ScanCounts ==
    {0, 1, 2, 65} \cup {N_SCANS_PER_SECOND * r + d : r \in 1 .. MaxRawSeconds, d \in {0, 1}}

RawStores ==
    [n_units : {N_UNITS_PER_SCAN * n : n \in ScanCounts},
     mode : {"same", "clock", "frames"},
     w0 : { <<7, 49152>>, <<65534, 16383>> },
     w1 : { <<0, 10496>>, <<513, 65280>> }]

\* z.vdif_head[k, j] of the raw store, a uint32 as <<lo, hi>>
HeadWord(r, k, j) ==
    IF j = 0
    THEN IF r.mode = "same" THEN r.w0
         ELSE LET lo == r.w0[1] + (k \div (N_UNITS_PER_SCAN * N_SCANS_PER_SECOND))
              IN  << lo % 65536, (r.w0[2] + (lo \div 65536)) % 65536 >>
    ELSE IF j = 1
    THEN IF r.mode = "frames"
         THEN << k % (N_UNITS_PER_SCAN * N_SCANS_PER_SECOND), r.w1[2] >>
         ELSE r.w1
    ELSE << j, 0 >>

\* lines 95-100: vdif_head.flatten().reshape((n / 64, 8 * 64)), element [s, c]
reshaped_vdif_head(r, s, c) ==
    LET flat == s * (N_ROWS_VDIF_HEAD * N_UNITS_PER_SCAN) + c
    IN  HeadWord(r, flat \div N_ROWS_VDIF_HEAD, flat % N_ROWS_VDIF_HEAD)

\* a variant of millisecond that takes the position of the scan among 64
millisecond_per_unit(scan) == (scan % N_UNITS_PER_SCAN) * UNIT_MILLISECOND

\* line 118: millisecond = (scan % N_SCANS_PER_SECOND) * UNIT_MILLISECOND
millisecond(scan) == (scan % N_SCANS_PER_SECOND) * UNIT_MILLISECOND

\* lines 116-117: the two bit fields of the first words of a scan, times
\* their units
month(r, scan) ==
    SumPow2(slice_binary(BitsOfU32(reshaped_vdif_head(r, scan, 1)), SLICE_MONTH).value)
        * UNIT_MONTH

second(r, scan) ==
    SumPow2(slice_binary(BitsOfU32(reshaped_vdif_head(r, scan, 0)), SLICE_SECOND).value)
        * UNIT_SECOND

\* line 120: REF_YEAR + month + second + millisecond, kept as its four terms
\* (a year, months, seconds and milliseconds)
time_of(r, scan) ==
    [year |-> REF_YEAR, months |-> month(r, scan), seconds |-> second(r, scan),
     milliseconds |-> millisecond(scan)]

N_CHANS_FOR_FORMAT == 8192

\* z.corr_data[k, j] of the raw store, an int16: every sample of a scan has
\* its own value, negative ones among them
DataWord(r, k, j) ==
    LET u == ((N_ROWS_CORR_DATA * k + j) * 37 + r.w0[1] + r.w1[2]) % 65536
    IN  IF u >= 32768 THEN u - 65536 ELSE u

\* lines 101-106: corr_data.flatten().reshape((n / 64, 512 * 64)), element [s, c]
reshaped_corr_data(r, s, c) ==
    LET flat == s * (N_ROWS_CORR_DATA * N_UNITS_PER_SCAN) + c
    IN  DataWord(r, flat \div N_ROWS_CORR_DATA, flat % N_ROWS_CORR_DATA)

\* len(x[start::2]) for x of n items
stride2_len(n, start) == IF n > start THEN (n - start + 1) \div 2 ELSE 0

\* a variant of complex_at that takes the two halves of a row as the real and
\* the imaginary parts
complex_at_halves(r, s, j) ==
    [re |-> reshaped_corr_data(r, s, j),
     im |-> reshaped_corr_data(r, s, stride2_len(N_ROWS_CORR_DATA * N_UNITS_PER_SCAN, 0) + j)]

\* line 109: corr_data[:, 0::2] + corr_data[:, 1::2] * IMAG_UNIT, element [s, j]
complex_at(r, s, j) ==
    [re |-> reshaped_corr_data(r, s, 0 + 2 * j),
     im |-> reshaped_corr_data(r, s, 1 + 2 * j)]

\* line 112: correlator[:, :N_CHANS_FOR_FORMAT], element [s, j]: the slice
\* starts at 0, so element j is element j of the array it is taken from
correlator_at(r, s, j) == complex_at(r, s, 0 + j)

\* lines 101-112: the shape of correlator, scans by channels
correlator_shape(r) ==
    << r.n_units \div N_UNITS_PER_SCAN,
       Min(stride2_len(N_ROWS_CORR_DATA * N_UNITS_PER_SCAN, 0), N_CHANS_FOR_FORMAT) >>

NoArray == [shape |-> <<0, 0>>, of |-> "none"]

NoConvArgs == [op |-> "none"]

InitConv ==
    /\ cv_pc = "idle"
    /\ cv_err = "none"
    /\ cv_args = NoConvArgs
    /\ raw \in RawStores
    /\ fmt_zarr \in {NoDest, OldDest}
    /\ time = << >>
    /\ correlator = NoArray

IdleConv ==
    /\ cv_pc = "off"
    /\ cv_err = "none"
    /\ cv_args = NoConvArgs
    /\ raw = [n_units |-> 0, mode |-> "same", w0 |-> <<0, 0>>, w1 |-> <<0, 0>>]
    /\ fmt_zarr = NoDest
    /\ time = << >>
    /\ correlator = NoArray

\* the call: convert(path_raw_zarr, path_fmt_zarr, overwrite=)
Call_convert ==
    /\ cv_pc = "idle"
    /\ cv_args = NoConvArgs
    /\ \E o \in BOOLEAN : cv_args' = [op |-> "convert", overwrite |-> o]
    /\ cv_pc' = "cv_exists"
    /\ UNCHANGED <<cv_err, raw, fmt_zarr, time, correlator>>
    /\ UNCHANGED <<corrVars, guardVars, bitVars, gbdVars, wxVars>>

\* lines 87-88: if path_fmt_zarr.exists() and not overwrite: raise
convert_exists ==
    /\ cv_pc = "cv_exists"
    /\ IF fmt_zarr.exists /\ ~cv_args.overwrite
       THEN cv_pc' = "raised" /\ cv_err' = "FileExistsError"
       ELSE cv_pc' = "cv_time" /\ cv_err' = cv_err
    /\ UNCHANGED <<cv_args, raw, fmt_zarr, time, correlator>>
    /\ UNCHANGED <<corrVars, guardVars, bitVars, gbdVars, wxVars>>

\* lines 91-120: the store is opened, vdif_head reshaped to one row per scan,
\* and time computed for scan = 0 .. len(correlator) - 1
convert_time ==
    /\ cv_pc = "cv_time"
    /\ correlator' = [shape |-> correlator_shape(raw), of |-> "corr_data"]
    /\ time' = [s \in 1 .. correlator'.shape[1] |-> time_of(raw, s - 1)]
    /\ cv_pc' = "cv_write"
    /\ UNCHANGED <<cv_err, cv_args, raw, fmt_zarr>>
    /\ UNCHANGED <<corrVars, guardVars, bitVars, gbdVars, wxVars>>

\* lines 142-168: the dataset with time as its coordinate is written with
\* mode="w"; return path_fmt_zarr
convert_write ==
    /\ cv_pc = "cv_write"
    /\ fmt_zarr' = [exists |-> TRUE, content |-> << "formatted" >>]
    /\ cv_pc' = "cv_done"
    /\ UNCHANGED <<cv_err, cv_args, raw, time, correlator>>
    /\ UNCHANGED <<corrVars, guardVars, bitVars, gbdVars, wxVars>>

(***************************************************************************)
(* Part 5: the accelerometer (GBD) reader of nro45_merge/accelerometer.py. *)
(*                                                                         *)
(* Text.  A Python str is held as the sequence of its characters, each a   *)
(* one-character string, so that the regular expressions, int(), split,    *)
(* strip and the "in" tests of the code are computed on the characters.    *)
(* The character \x00 is written NUL.                                      *)
(***************************************************************************)
NUL == "NUL"

DigitChars == {"0", "1", "2", "3", "4", "5", "6", "7", "8", "9"}

\* \s of re and the separators of str.split()
SpaceChars == {" ", "\t", "\n", "\r"}

\* \w of re: letters, digits and the underscore
WordChars ==
    DigitChars \cup {"_"} \cup
    {"A", "B", "C", "D", "E", "F", "G", "H", "I", "J", "K", "L", "M", "N", "O",
     "P", "Q", "R", "S", "T", "U", "V", "W", "X", "Y", "Z",
     "a", "b", "c", "d", "e", "f", "g", "h", "i", "j", "k", "l", "m", "n", "o",
     "p", "q", "r", "s", "t", "u", "v", "w", "x", "y", "z"}

DigitVal(c) ==
    CASE c = "0" -> 0 [] c = "1" -> 1 [] c = "2" -> 2 [] c = "3" -> 3
      [] c = "4" -> 4 [] c = "5" -> 5 [] c = "6" -> 6 [] c = "7" -> 7
      [] c = "8" -> 8 [] c = "9" -> 9

RECURSIVE IntOfDigits(_)
\* the number a non-empty run of decimal digits writes
IntOfDigits(s) ==
    IF Len(s) = 0 THEN 0
    ELSE 10 * IntOfDigits(SubSeq(s, 1, Len(s) - 1)) + DigitVal(s[Len(s)])

RECURSIVE RunIn(_, _, _)
\* the length of the longest run of characters of S in s from position q on
RunIn(s, q, S) ==
    IF q > Len(s) \/ s[q] \notin S THEN 0 ELSE 1 + RunIn(s, q + 1, S)

\* s[p:p+len(w)] == w
StartsWithAt(s, p, w) ==
    /\ p + Len(w) - 1 <= Len(s)
    /\ \A k \in 1 .. Len(w) : s[p + k - 1] = w[k]

\* w in s
Contains(s, w) == \E p \in 1 .. Len(s) - Len(w) + 1 : StartsWithAt(s, p, w)

Clamp(x, lo, hi) == IF x < lo THEN lo ELSE IF x > hi THEN hi ELSE x

(***************************************************************************)
(* The GBD file: lead NUL bytes (none in a file of the logger), the header *)
(* text, pad NUL bytes up to the end of the header, and the payload, whose *)
(* byte at offset o (from its start) is PayloadByte(file, o).              *)
(***************************************************************************)
FirstPage == 2048

HeaderEnd(file) == file.lead + Len(file.text) + file.pad

\* f.read(n).decode(encoding) from the start of the file, for n up to the end
\* of the header, without the NUL bytes around the text: HEADER_REMOVAL deletes
\* them, and no match of HEADER_SIZE can hold one
read_text(file, n) ==
    SubSeq(file.text, 1, Clamp(n - file.lead, 0, Len(file.text)))

s_HeaderSiz == <<"H", "e", "a", "d", "e", "r", "S", "i", "z">>

\* HeaderSiz\s+=\s+(\d+) matched at position p of s: the end of the match, or 0
HEADER_SIZE_match(s, p) ==
    IF ~StartsWithAt(s, p, s_HeaderSiz) THEN [ok |-> FALSE]
    ELSE LET q1 == p + Len(s_HeaderSiz)
             w1 == RunIn(s, q1, SpaceChars)
             q2 == q1 + w1
             w2 == RunIn(s, q2 + 1, SpaceChars)
             q3 == q2 + 1 + w2
             d  == RunIn(s, q3, DigitChars)
         IN  IF w1 >= 1 /\ q2 <= Len(s) /\ s[q2] = "=" /\ w2 >= 1 /\ d >= 1
             THEN [ok |-> TRUE, group1 |-> SubSeq(s, q3, q3 + d - 1)]
             ELSE [ok |-> FALSE]

\* HEADER_SIZE.search(s): the leftmost match
HEADER_SIZE_search(s) ==
    LET P == {p \in 1 .. Len(s) : HEADER_SIZE_match(s, p).ok}
    IN  IF P = {} THEN [ok |-> FALSE]
        ELSE HEADER_SIZE_match(s, CHOOSE p \in P : \A r \in P : p <= r)

GRaised(e) == [raised |-> TRUE, error |-> e]

GReturned(v) == [raised |-> FALSE, error |-> "none", value |-> v]

\* lines 208-216
get_header_size(file) ==
    LET m == HEADER_SIZE_search(read_text(file, FirstPage))
    IN  IF ~m.ok
        THEN GRaised("ValueError: Could not find header size.")
        ELSE GReturned(IntOfDigits(m.group1))

(***************************************************************************)
(* get_header: the rows of the header text and their translation to TOML.  *)
(***************************************************************************)
RECURSIVE RunNotIn(_, _, _)
RunNotIn(s, q, S) ==
    IF q > Len(s) \/ s[q] \in S THEN 0 ELSE 1 + RunNotIn(s, q + 1, S)

Tail_(s, n) == SubSeq(s, n + 1, Len(s))

\* HEADER_REMOVAL.sub("", s): every \x00 and every space is deleted
HEADER_REMOVAL_sub(s) == SelectSeq(s, LAMBDA c : c \notin {NUL, " "})

RECURSIVE str_split(_)
\* s.split(): the maximal runs of characters that are no white space
str_split(s) ==
    LET rest == Tail_(s, RunIn(s, 1, SpaceChars))
        n    == RunNotIn(rest, 1, SpaceChars)
    IN  IF Len(rest) = 0 THEN << >>
        ELSE << SubSeq(rest, 1, n) >> \o str_split(Tail_(rest, n))

RECURSIVE str_split_on(_, _)
\* s.split(c): the pieces between the occurrences of c, empty ones kept
str_split_on(s, c) ==
    LET n == RunNotIn(s, 1, {c})
    IN  IF n = Len(s) THEN << s >>
        ELSE << SubSeq(s, 1, n) >> \o str_split_on(Tail_(s, n + 1), c)

RECURSIVE str_join(_, _)
\* sep.join(parts)
str_join(sep, parts) ==
    IF Len(parts) = 0 THEN << >>
    ELSE IF Len(parts) = 1 THEN parts[1]
    ELSE parts[1] \o sep \o str_join(sep, Tail(parts))

\* s.strip(c)
str_strip(s, c) ==
    LET a0 == RunIn(s, 1, {c})
        t  == Tail_(s, a0)
        K  == {k \in 0 .. Len(t) : \A j \in k + 1 .. Len(t) : t[j] = c}
    IN  SubSeq(t, 1, CHOOSE k \in K : \A m \in K : k <= m)

\* HEADER_SECTION.search(row), ^(\$+)(.+)$, on a row without white space:
\* group 1 takes every leading "$" but leaves group 2 one character
HEADER_SECTION_search(row) ==
    LET d == RunIn(row, 1, {"$"})
        g == IF d = Len(row) THEN d - 1 ELSE d
    IN  IF d >= 1 /\ Len(row) >= 2
        THEN [ok |-> TRUE, depth |-> g, name |-> Tail_(row, g)]
        ELSE [ok |-> FALSE]

\* HEADER_VALUE.search(row), ^\s*(\w+)\s*=\s*(.+)$, on a row without white
\* space: a run of word characters, "=", and one character or more
HEADER_VALUE_search(row) ==
    LET k == RunIn(row, 1, WordChars)
    IN  IF k >= 1 /\ Len(row) >= k + 2 /\ row[k + 1] = "="
        THEN [ok |-> TRUE, key |-> SubSeq(row, 1, k), values |-> Tail_(row, k + 1)]
        ELSE [ok |-> FALSE]

\* int(obj) of a str: an optional sign and decimal digits, single underscores
\* allowed between digits; anything else is a ValueError
py_int(obj) ==
    LET signed == Len(obj) >= 1 /\ obj[1] \in {"+", "-"}
        body   == IF signed THEN Tail(obj) ELSE obj
        digits == SelectSeq(body, LAMBDA c : c # "_")
        ok     == /\ Len(body) >= 1
                  /\ \A k \in 1 .. Len(body) : body[k] \in DigitChars \cup {"_"}
                  /\ body[1] # "_" /\ body[Len(body)] # "_"
                  /\ \A k \in 1 .. Len(body) - 1 : ~(body[k] = "_" /\ body[k + 1] = "_")
    IN  IF ~ok THEN [ok |-> FALSE]
        ELSE [ok |-> TRUE,
              value |-> IF signed /\ obj[1] = "-"
                        THEN 0 - IntOfDigits(digits) ELSE IntOfDigits(digits)]

PyInt(n) == [t |-> "int", v |-> n]

PyStr(x) == [t |-> "str", v |-> x]

PyList(x) == [t |-> "list", v |-> x]

\* a variant of to_parsable that keeps every item as a string
to_parsable_str(obj) == PyStr(str_strip(obj, "\""))

\* lines 248-253
to_parsable(obj) ==
    IF py_int(obj).ok THEN PyInt(py_int(obj).value) ELSE PyStr(str_strip(obj, "\""))

RECURSIVE DigitsOf(_)
\* the decimal digits of a natural number
DigitsOf(n) ==
    LET d == << CHOOSE c \in DigitChars : DigitVal(c) = n % 10 >>
    IN  IF n < 10 THEN d ELSE DigitsOf(n \div 10) \o d

RECURSIVE py_escape(_, _)
\* the body of repr(str): backslashes and the quote in use are escaped
py_escape(x, quote) ==
    IF Len(x) = 0 THEN << >>
    ELSE (IF x[1] \in {"\\", quote} THEN << "\\", x[1] >> ELSE << x[1] >>)
             \o py_escape(Tail(x), quote)

RECURSIVE py_repr(_)
\* repr of an int, of a str (single quotes, unless it holds one and no double
\* quote) and of a list
py_repr(x) ==
    CASE x.t = "int" ->
            IF x.v < 0 THEN << "-" >> \o DigitsOf(0 - x.v) ELSE DigitsOf(x.v)
      [] x.t = "str" ->
            LET quote == IF Contains(x.v, << "'" >>) /\ ~Contains(x.v, << "\"" >>)
                         THEN "\"" ELSE "'"
            IN  << quote >> \o py_escape(x.v, quote) \o << quote >>
      [] x.t = "list" ->
            << "[" >>
                \o str_join(<< ",", " " >>, [k \in 1 .. Len(x.v) |-> py_repr(x.v[k])])
                \o << "]" >>

\* lines 240-241: if len(values) == 1: values = values[0]
collapse(values) == IF Len(values) = 1 THEN values[1] ELSE PyList(values)

\* a variant of section_set whose depth-2 marker keeps the third element
section_set_keep(sec, depth, name) ==
    CASE depth = 1 -> << name, << >>, << >> >>
      [] depth = 2 -> << sec[1], name, sec[3] >>
      [] depth = 3 -> << sec[1], sec[2], name >>

\* lines 224-233: the section list after a marker of the given depth
section_set(sec, depth, name) ==
    CASE depth = 1 -> << name, << >>, << >> >>
      [] depth = 2 -> << sec[1], name, << >> >>
      [] depth = 3 -> << sec[1], sec[2], name >>

\* a variant of parse_header_row that skips a row it does not recognize
parse_header_row_skip(row, sec) ==
    LET m == HEADER_SECTION_search(row)
        v == HEADER_VALUE_search(row)
    IN  IF m.ok
        THEN IF m.depth > 3 THEN [raised |-> TRUE, error |-> "ValueError", section |-> sec]
             ELSE LET s2 == section_set(sec, m.depth, m.name)
                  IN  [raised |-> FALSE, section |-> s2,
                       toml |-> << "[" >>
                                  \o str_join(<< "." >>, SelectSeq(s2, LAMBDA x : Len(x) > 0))
                                  \o << "]" >>]
        ELSE IF v.ok
        THEN LET items == str_split_on(v.values, ",")
                 values == [k \in 1 .. Len(items) |-> to_parsable(items[k])]
             IN  [raised |-> FALSE, section |-> sec,
                  toml |-> v.key \o << " ", "=", " " >> \o py_repr(collapse(values))]
        ELSE [raised |-> FALSE, section |-> sec, toml |-> << >>]

\* lines 219-245: the TOML row and the section list as the call leaves it, or
\* ValueError(row)
parse_header_row(row, sec) ==
    LET m == HEADER_SECTION_search(row)
        v == HEADER_VALUE_search(row)
    IN  IF m.ok
        THEN IF m.depth > 3 THEN [raised |-> TRUE, error |-> "ValueError", section |-> sec]
             ELSE LET s2 == section_set(sec, m.depth, m.name)
                  IN  [raised |-> FALSE, section |-> s2,
                       toml |-> << "[" >>
                                  \o str_join(<< "." >>, SelectSeq(s2, LAMBDA x : Len(x) > 0))
                                  \o << "]" >>]
        ELSE IF v.ok
        THEN LET items == str_split_on(v.values, ",")
                 values == [k \in 1 .. Len(items) |-> to_parsable(items[k])]
             IN  [raised |-> FALSE, section |-> sec,
                  toml |-> v.key \o << " ", "=", " " >> \o py_repr(collapse(values))]
        ELSE [raised |-> TRUE, error |-> "ValueError", section |-> sec]

(***************************************************************************)
(* tomlkit.parse, on the rows parse_header_row writes: "[a.b.c]" opens the *)
(* table a.b.c, "key = value" stores an integer, a string or an array in   *)
(* the open table.  The document is held as the tables it declares and its *)
(* entries [path, key, value] in the order of the rows.  Quoted keys,      *)
(* floats, dates, inline tables and nested arrays never come out of        *)
(* parse_header_row for the characters of HeaderChars and are not read.    *)
(***************************************************************************)
BareKeyChars == WordChars \cup {"-"}

RECURSIVE toml_unescape(_)
\* the content of a basic string ("..."): \\ and \" are the escapes repr writes
toml_unescape(x) ==
    IF Len(x) = 0 THEN [ok |-> TRUE, v |-> << >>]
    ELSE IF x[1] = "\""
    THEN [ok |-> FALSE]
    ELSE IF x[1] = "\\"
    THEN IF Len(x) >= 2 /\ x[2] \in {"\\", "\""}
         THEN LET r == toml_unescape(Tail_(x, 2))
              IN  IF r.ok THEN [ok |-> TRUE, v |-> << x[2] >> \o r.v] ELSE r
         ELSE [ok |-> FALSE]
    ELSE LET r == toml_unescape(Tail(x))
         IN  IF r.ok THEN [ok |-> TRUE, v |-> << x[1] >> \o r.v] ELSE r

\* an integer, a literal string ('...', no escapes) or a basic string
toml_scalar(t) ==
    IF Len(t) >= 2 /\ t[1] = "'"
    THEN LET inner == SubSeq(t, 2, Len(t) - 1)
         IN  IF t[Len(t)] = "'" /\ ~Contains(inner, << "'" >>)
             THEN [ok |-> TRUE, v |-> PyStr(inner)] ELSE [ok |-> FALSE]
    ELSE IF Len(t) >= 2 /\ t[1] = "\""
    THEN LET r == toml_unescape(SubSeq(t, 2, Len(t) - 1))
         IN  IF t[Len(t)] = "\"" /\ r.ok
             THEN [ok |-> TRUE, v |-> PyStr(r.v)] ELSE [ok |-> FALSE]
    ELSE LET signed == Len(t) >= 1 /\ t[1] \in {"+", "-"}
             body   == IF signed THEN Tail(t) ELSE t
         IN  IF /\ Len(body) >= 1
                /\ \A k \in 1 .. Len(body) : body[k] \in DigitChars
                /\ (Len(body) > 1 => body[1] # "0")
             THEN [ok |-> TRUE,
                   v |-> PyInt(IF signed /\ t[1] = "-"
                               THEN 0 - IntOfDigits(body) ELSE IntOfDigits(body))]
             ELSE [ok |-> FALSE]

\* a value: a scalar, or an array "[v1, v2, ...]" of scalars without spaces
toml_value(t) ==
    IF Len(t) >= 2 /\ t[1] = "[" /\ t[Len(t)] = "]"
    THEN LET pieces == str_split(SubSeq(t, 2, Len(t) - 1))
             item(k) == IF k < Len(pieces)
                        THEN SubSeq(pieces[k], 1, Len(pieces[k]) - 1)
                        ELSE pieces[k]
         IN  IF /\ \A k \in 1 .. Len(pieces) - 1 : pieces[k][Len(pieces[k])] = ","
                /\ \A k \in 1 .. Len(pieces) : toml_scalar(item(k)).ok
             THEN [ok |-> TRUE,
                   v |-> PyList([k \in 1 .. Len(pieces) |-> toml_scalar(item(k)).v])]
             ELSE [ok |-> FALSE]
    ELSE toml_scalar(t)

EmptyDocument == [ok |-> TRUE, path |-> << >>, tables |-> { << >> }, entries |-> << >>]

IsPrefix(p, q) == Len(p) <= Len(q) /\ SubSeq(q, 1, Len(p)) = p

\* the document after one more row; a table declared twice, a key set twice
\* and a key that is also a table are errors
toml_row(doc, t) ==
    IF ~doc.ok \/ Len(t) = 0 THEN doc
    ELSE IF t[1] = "["
    THEN LET path == str_split_on(SubSeq(t, 2, Len(t) - 1), ".")
         IN  IF /\ t[Len(t)] = "]"
                /\ \A k \in 1 .. Len(path) :
                      /\ Len(path[k]) >= 1
                      /\ \A j \in 1 .. Len(path[k]) : path[k][j] \in BareKeyChars
                /\ path \notin doc.tables
                /\ \A e \in 1 .. Len(doc.entries) :
                      ~IsPrefix(Append(doc.entries[e].path, doc.entries[e].key), path)
             THEN [doc EXCEPT !.path = path, !.tables = @ \cup {path}]
             ELSE [ok |-> FALSE]
    ELSE LET k == RunNotIn(t, 1, {" "})
             key == SubSeq(t, 1, k)
             v == toml_value(Tail_(t, k + 3))
         IN  IF /\ StartsWithAt(t, k + 1, << " ", "=", " " >>)
                /\ v.ok
                /\ \A e \in 1 .. Len(doc.entries) :
                      ~(doc.entries[e].path = doc.path /\ doc.entries[e].key = key)
                /\ \A q \in doc.tables : ~IsPrefix(Append(doc.path, key), q)
             THEN [doc EXCEPT !.entries =
                       Append(@, [path |-> doc.path, key |-> key, value |-> v.v])]
             ELSE [ok |-> FALSE]

RECURSIVE toml_parse_from(_, _)
toml_parse_from(doc, rows) ==
    IF Len(rows) = 0 THEN doc ELSE toml_parse_from(toml_row(doc, rows[1]), Tail(rows))

\* line 174: parse("\n".join(toml_rows)); no row holds a line break
toml_parse(rows) ==
    LET doc == toml_parse_from(EmptyDocument, rows)
    IN  IF doc.ok THEN GReturned([tables |-> doc.tables, entries |-> doc.entries])
        ELSE GRaised("tomlkit.exceptions.TOMLKitError")

\* header[p1][p2]...[key] is there
HasKey(hdr, path, key) ==
    \E e \in 1 .. Len(hdr.entries) : hdr.entries[e].path = path /\ hdr.entries[e].key = key

\* header[p1][p2]...[key]
GetKey(hdr, path, key) ==
    hdr.entries[CHOOSE e \in 1 .. Len(hdr.entries) :
                    hdr.entries[e].path = path /\ hdr.entries[e].key = key].value

(***************************************************************************)
(* The files get_header and get_header_size are called on.                 *)
(***************************************************************************)
MaxHeaderRows == 3

NoPayload == << >>

\* the file with the given text, its header padded to whole pages
MakeFile(lead, text, pages, payload) ==
    [lead |-> lead, text |-> text, pad |-> pages * FirstPage - lead - Len(text),
     payload |-> payload]

RECURSIVE Lines(_)
\* the text of the rows, each ended by a line break
Lines(rows) ==
    IF Len(rows) = 0 THEN << >> ELSE rows[1] \o << "\r", "\n" >> \o Lines(Tail(rows))

SizeRows ==
    { <<"H", "e", "a", "d", "e", "r", "S", "i", "z", " ", "=", " ", "4", "0", "9", "6">>,
      <<"H", "e", "a", "d", "e", "r", "S", "i", "z", " ", " ", " ", " ", "=", "\t", "2", "0", "4", "8">>,
      <<"H", "e", "a", "d", "e", "r", "S", "i", "z", " ", "=", " ", "3", "0", "0", "0">>,
      <<"H", "e", "a", "d", "e", "r", "S", "i", "z", "=", "4", "0", "9", "6">>,
      <<"H", "e", "a", "d", "e", "r", "S", "i", "z", "e", " ", "=", " ", "4", "0", "9", "6">>,
      <<"x", "H", "e", "a", "d", "e", "r", "S", "i", "z", " ", "=", " ", "0", "1", "0", "0">> }

HeaderRowPool ==
    { <<"$", "C", "o", "m", "m", "o", "n">>,
      <<"$", "$", "I", "D">>,
      <<"$", "$", "$", "S", "u", "b">>,
      <<"$", "$", "$", "$", "D", "e", "e", "p">>,
      <<"V", "a", "l", " ", "=", " ", "1", "2", "3">>,
      <<"N", "a", "m", "e", " ", "=", " ", "\"", "G", "L", " ", "8", "4", "0", "\"">>,
      <<"C", "H", "4", " ", "=", " ", "2", "1", ",", " ", "0", ",", " ", "2", "1">>,
      <<"A", "m", "p", " ", "=", " ", "-", "5", ",", "O", "n", ",", "+", "0", "0", "7", ",", "\"", "\"", ",", "1", "_", "0">>,
      <<"V", "a", "l", " ", "=", " ", "1", "2", "a">>,
      <<"S", "a", "m", "p", "l", "e">>,
      <<"$">>,
      <<"N", "o", "-", "K", "e", "y", "=", "1">> }

RowLists ==
    { rows \in UNION { [1 .. n -> HeaderRowPool] : n \in 0 .. MaxHeaderRows } :
          \A j, k \in DOMAIN rows : j # k => rows[j] # rows[k] }

\* where the text starts: at the start of the file, or so late that the first
\* page ends within the digits, within the name, or before the declaration
Leads == {0, 2035, 2040, 2048}

\* the declaration alone, anywhere; or the declaration of one page at the
\* start and rows after it
HeaderFiles ==
    { MakeFile(l, Lines(<< d >>), 2, NoPayload) : l \in Leads, d \in SizeRows }
        \cup { MakeFile(0, Lines(<< <<"H", "e", "a", "d", "e", "r", "S", "i", "z", " ", "=", " ", "4", "0", "9", "6">> >> \o rows), 2, NoPayload) :
                   rows \in RowLists }

NoValue == << >>

IdleGbd ==
    /\ gbd = MakeFile(0, << >>, 1, NoPayload)
    /\ g_pc = "off"
    /\ g_op = "none"
    /\ g_err = "none"
    /\ g_ret = NoValue
    /\ header_rows = << >>
    /\ g_row = 0
    /\ section = << >>
    /\ toml_rows = << >>
    /\ header = NoValue
    /\ names = NoValue
    /\ units = NoValue
    /\ scales = NoValue
    /\ length_ = 0
    /\ index = NoValue
    /\ format_ = NoValue
    /\ data = << >>
    /\ g_i = 0

InitHeaderFiles ==
    /\ gbd \in HeaderFiles
    /\ g_pc = "idle"
    /\ g_op = "none"
    /\ g_err = "none"
    /\ g_ret = NoValue
    /\ header_rows = << >>
    /\ g_row = 0
    /\ section = << >>
    /\ toml_rows = << >>
    /\ header = NoValue
    /\ names = NoValue
    /\ units = NoValue
    /\ scales = NoValue
    /\ length_ = 0
    /\ index = NoValue
    /\ format_ = NoValue
    /\ data = << >>
    /\ g_i = 0

notGbdVars == <<corrVars, guardVars, bitVars, convVars, wxVars>>

getDataVars == <<names, units, scales, length_, index, format_, data, g_i>>

GRaise(e) ==
    /\ g_pc' = "raised"
    /\ g_err' = e

\* the call get_header_size(path)
Call_get_header_size ==
    /\ g_pc = "idle"
    /\ g_op' = "get_header_size"
    /\ g_pc' = "hs_search"
    /\ UNCHANGED <<gbd, g_err, g_ret, header_rows, g_row, section, toml_rows, header>>
    /\ UNCHANGED getDataVars
    /\ UNCHANGED notGbdVars

\* lines 210-216
get_header_size_return ==
    /\ g_pc = "hs_search"
    /\ LET r == get_header_size(gbd)
       IN  IF r.raised
           THEN GRaise(r.error) /\ g_ret' = g_ret
           ELSE g_pc' = "done" /\ g_err' = g_err /\ g_ret' = r.value
    /\ UNCHANGED <<gbd, g_op, header_rows, g_row, section, toml_rows, header>>
    /\ UNCHANGED getDataVars
    /\ UNCHANGED notGbdVars

\* the call get_header(path)
Call_get_header ==
    /\ g_pc = "idle"
    /\ g_op' = "get_header"
    /\ g_pc' = "gh_read"
    /\ UNCHANGED <<gbd, g_err, g_ret, header_rows, g_row, section, toml_rows, header>>
    /\ UNCHANGED getDataVars
    /\ UNCHANGED notGbdVars

\* lines 164-169: the header is read in the size get_header_size returns and
\* cut into rows; toml_rows = [], section = ["", "", ""]
get_header_read ==
    /\ g_pc = "gh_read"
    /\ LET r == get_header_size(gbd)
       IN  IF r.raised
           THEN GRaise(r.error) /\ UNCHANGED <<header_rows, section, toml_rows>>
           ELSE /\ header_rows' = str_split(HEADER_REMOVAL_sub(read_text(gbd, r.value)))
                /\ toml_rows' = << >>
                /\ section' = << << >>, << >>, << >> >>
                /\ g_pc' = "gh_for"
                /\ g_err' = g_err
    /\ g_row' = 0
    /\ UNCHANGED <<gbd, g_op, g_ret, header>>
    /\ UNCHANGED getDataVars
    /\ UNCHANGED notGbdVars

\* lines 171-172: toml_rows.append(parse_header_row(row, section))
get_header_row ==
    /\ g_pc = "gh_for"
    /\ g_row < Len(header_rows)
    /\ LET r == parse_header_row(header_rows[g_row + 1], section)
       IN  IF r.raised
           THEN GRaise(r.error) /\ UNCHANGED <<section, toml_rows, g_row>>
           ELSE /\ toml_rows' = Append(toml_rows, r.toml)
                /\ section' = r.section
                /\ g_row' = g_row + 1
                /\ UNCHANGED <<g_pc, g_err>>
    /\ UNCHANGED <<gbd, g_op, g_ret, header_rows, header>>
    /\ UNCHANGED getDataVars
    /\ UNCHANGED notGbdVars

\* line 174: return parse("\n".join(toml_rows)), to the caller or to get_data
get_header_parse ==
    /\ g_pc = "gh_for"
    /\ g_row = Len(header_rows)
    /\ LET r == toml_parse(toml_rows)
       IN  IF r.raised
           THEN GRaise(r.error) /\ UNCHANGED <<g_ret, header>>
           ELSE IF g_op = "get_header"
           THEN g_pc' = "done" /\ g_ret' = r.value /\ UNCHANGED <<g_err, header>>
           ELSE g_pc' = "gd_names" /\ header' = r.value /\ UNCHANGED <<g_err, g_ret>>
    /\ UNCHANGED <<gbd, g_op, header_rows, g_row, section, toml_rows>>
    /\ UNCHANGED getDataVars
    /\ UNCHANGED notGbdVars

(***************************************************************************)
(* get_data: the helper features on the parsed header (lines 255-400).     *)
(***************************************************************************)
s_Data == <<"D", "a", "t", "a">>

s_Order == <<"O", "r", "d", "e", "r">>

s_Counts == <<"C", "o", "u", "n", "t", "s">>

s_Sample == <<"S", "a", "m", "p", "l", "e">>

s_Time == <<"T", "i", "m", "e">>

s_Start == <<"S", "t", "a", "r", "t">>

s_Measure == <<"M", "e", "a", "s", "u", "r", "e">>

s_Scale == <<"S", "c", "a", "l", "e">>

s_Amp == <<"A", "m", "p">>

s_TEMP == <<"T", "E", "M", "P">>

s_CH == <<"C", "H">>

s_Pulse == <<"P", "u", "l", "s", "e">>

s_Logic == <<"L", "o", "g", "i", "c">>

s_Alarm == <<"A", "l", "a", "r", "m">>

s_AlOut == <<"A", "l", "O", "u", "t">>

s_Status == <<"S", "t", "a", "t", "u", "s">>

s_mV == <<"m", "V">>

s_Common == <<"C", "o", "m", "m", "o", "n">>

\* Python's == on header values: an int never equals a str or a list
PyItemEq(x, y) == x.t = y.t /\ x.v = y.v

PyEq(x, y) ==
    /\ x.t = y.t
    /\ IF x.t = "list"
          THEN /\ Len(x.v) = Len(y.v)
               /\ \A k \in 1 .. Len(x.v) : PyItemEq(x.v[k], y.v[k])
          ELSE x.v = y.v

PyNone == [t |-> "None", v |-> << >>]

\* what a for statement goes through: the items of a list, the characters of
\* a str
py_iter(obj) ==
    IF obj.t = "list" THEN obj.v
    ELSE [k \in 1 .. Len(obj.v) |-> PyStr(<< obj.v[k] >>)]

\* obj[k], k counted from 0
py_getitem(obj, k) ==
    IF obj.t \notin {"list", "str"} THEN GRaised("TypeError")
    ELSE IF k >= Len(obj.v) THEN GRaised("IndexError")
    ELSE GReturned(IF obj.t = "list" THEN obj.v[k + 1] ELSE PyStr(<< obj.v[k + 1] >>))

\* header[p1][p2]... is a table
HasTable(hdr, path) == \E q \in hdr.tables : IsPrefix(path, q)

\* name in header[p1][p2]...
InTable(hdr, path, name) ==
    /\ name.t = "str"
    /\ HasKey(hdr, path, name.v) \/ HasTable(hdr, Append(path, name.v))

\* header[p1][p2]...[key], a KeyError when it is not there
Lookup(hdr, path, key) ==
    IF HasKey(hdr, path, key) THEN GReturned(GetKey(hdr, path, key))
    ELSE GRaised("KeyError")

\* lines 257-259
get_data_names(hdr) == Lookup(hdr, << s_Common, s_Data >>, s_Order)

\* lines 262-264: int(header["Common"]["Data"]["Counts"])
get_data_length(hdr) ==
    LET c == Lookup(hdr, << s_Common, s_Data >>, s_Counts)
    IN  IF c.raised THEN c
        ELSE IF c.value.t = "int" THEN GReturned(c.value.v)
        ELSE IF c.value.t = "str"
        THEN IF py_int(c.value.v).ok THEN GReturned(py_int(c.value.v).value)
             ELSE GRaised("ValueError")
        ELSE GRaised("TypeError")

RECURSIVE units_loop(_, _, _)
\* lines 282-286: scales[name][6] for a name of Measure.Scale, None for another
units_loop(hdr, items, acc) ==
    IF Len(items) = 0 THEN GReturned(acc)
    ELSE IF InTable(hdr, << s_Measure, s_Scale >>, items[1])
    THEN LET u == IF HasKey(hdr, << s_Measure, s_Scale >>, items[1].v)
                  THEN py_getitem(GetKey(hdr, << s_Measure, s_Scale >>, items[1].v), 6)
                  ELSE GRaised("KeyError")
         IN  IF u.raised THEN u ELSE units_loop(hdr, Tail(items), Append(acc, u.value))
    ELSE units_loop(hdr, Tail(items), Append(acc, PyNone))

\* lines 276-288
get_data_units(hdr) ==
    LET n == get_data_names(hdr)
    IN  IF n.raised THEN n
        ELSE IF ~HasTable(hdr, << s_Measure, s_Scale >>) THEN GRaised("KeyError")
        ELSE IF n.value.t = "int" THEN GRaised("TypeError")
        ELSE units_loop(hdr, py_iter(n.value), << >>)

RECURSIVE amp_loop(_, _, _, _)
\* lines 296-300 and 310-314: amp[name][k] for a name of Amp, None for another
amp_loop(hdr, items, k, acc) ==
    IF Len(items) = 0 THEN GReturned(acc)
    ELSE IF ~HasTable(hdr, << s_Amp >>) THEN GRaised("KeyError")
    ELSE IF InTable(hdr, << s_Amp >>, items[1])
    THEN LET u == IF HasKey(hdr, << s_Amp >>, items[1].v)
                  THEN py_getitem(GetKey(hdr, << s_Amp >>, items[1].v), k)
                  ELSE GRaised("KeyError")
         IN  IF u.raised THEN u ELSE amp_loop(hdr, Tail(items), k, Append(acc, u.value))
    ELSE amp_loop(hdr, Tail(items), k, Append(acc, PyNone))

\* lines 291-302
get_data_types(hdr) ==
    LET n == get_data_names(hdr)
    IN  IF n.raised THEN n
        ELSE IF n.value.t = "int" THEN GRaised("TypeError")
        ELSE amp_loop(hdr, py_iter(n.value), 1, << >>)

\* lines 305-316
get_data_ranges(hdr) ==
    LET n == get_data_names(hdr)
    IN  IF n.raised THEN n
        ELSE IF n.value.t = "int" THEN GRaised("TypeError")
        ELSE amp_loop(hdr, py_iter(n.value), 2, << >>)

\* a variant of range_factor that groups the ranges by their power of ten
range_factor_decades(range_) ==
    IF range_ \in {<<"1", "0", "m", "V">>, <<"2", "0", "m", "V">>, <<"5", "0", "m", "V">>} THEN 100000
    ELSE IF range_ \in {<<"1", "0", "0", "m", "V">>, <<"2", "0", "0", "m", "V">>, <<"5", "0", "0", "m", "V">>} THEN 10000
    ELSE IF range_ \in {<<"1", "V">>, <<"2", "V">>, <<"5", "V">>} THEN 1000
    ELSE IF range_ \in {<<"1", "0", "V">>, <<"2", "0", "V">>, <<"5", "0", "V">>} THEN 100
    ELSE IF range_ \in {<<"1", "0", "0", "V">>, <<"2", "0", "0", "V">>, <<"5", "0", "0", "V">>} THEN 10
    ELSE IF range_ \in {<<"1", "0", "0", "0", "V">>} THEN 1
    ELSE 0

\* lines 348-361: the factor of the range, in hundredths (1000, 100, 10, 1,
\* 0.1, 0.01), 0 for a range of no group
range_factor(range_) ==
    IF range_ \in {<<"1", "0", "m", "V">>, <<"2", "0", "m", "V">>} THEN 100000
    ELSE IF range_ \in {<<"5", "0", "m", "V">>, <<"1", "0", "0", "m", "V">>, <<"2", "0", "0", "m", "V">>} THEN 10000
    ELSE IF range_ \in {<<"5", "0", "0", "m", "V">>, <<"1", "V">>, <<"2", "V">>} THEN 1000
    ELSE IF range_ \in {<<"5", "V">>, <<"1", "0", "V">>, <<"2", "0", "V">>} THEN 100
    ELSE IF range_ \in {<<"5", "0", "V">>, <<"1", "0", "0", "V">>, <<"2", "0", "0", "V">>} THEN 10
    ELSE IF range_ \in {<<"5", "0", "0", "V">>, <<"1", "0", "0", "0", "V">>} THEN 1
    ELSE 0

\* lines 335-346: the factor of the first of the digits 1, 2, 4, 5 the range
\* holds, 0 when it holds none of them
digit_factor(range_) ==
    IF Contains(range_, << "1" >>) THEN 2
    ELSE IF Contains(range_, << "2" >>) THEN 1
    ELSE IF Contains(range_, << "4" >>) THEN 5
    ELSE IF Contains(range_, << "5" >>) THEN 4
    ELSE 0

\* a variant that multiplies by 1 whatever the range
unit_factor_one(range_) == 1

\* lines 363-366: "mV" in range_
unit_factor(range_) == IF Contains(range_, s_mV) THEN 1 ELSE 1000

\* a variant that looks at the range before the type
channel_scale_range_first(type_, range_) ==
    IF type_.t = "None" \/ range_.t = "None" THEN GReturned(1)
    ELSE IF range_.t # "str" THEN GRaised("TypeError")
    ELSE IF digit_factor(range_.v) = 0 \/ range_factor(range_.v) = 0
    THEN GRaised("ValueError")
    ELSE IF PyItemEq(type_, PyStr(s_TEMP)) THEN GReturned(10)
    ELSE GReturned((digit_factor(range_.v) * range_factor(range_.v) * unit_factor(range_.v)) \div 100)

\* a variant that multiplies by the digit itself
channel_scale_by_digit(type_, range_) ==
    IF type_.t = "None" \/ range_.t = "None" THEN GReturned(1)
    ELSE IF PyItemEq(type_, PyStr(s_TEMP)) THEN GReturned(10)
    ELSE IF range_.t # "str" THEN GRaised("TypeError")
    ELSE IF digit_factor(range_.v) = 0 \/ range_factor(range_.v) = 0
    THEN GRaised("ValueError")
    ELSE GReturned(((IF Contains(range_.v, << "1" >>) THEN 1
                     ELSE IF Contains(range_.v, << "2" >>) THEN 2
                     ELSE IF Contains(range_.v, << "4" >>) THEN 4
                     ELSE 5) * range_factor(range_.v) * unit_factor(range_.v)) \div 100)

\* a variant that takes 1 for a range of no group
channel_scale_default(type_, range_) ==
    IF type_.t = "None" \/ range_.t = "None" THEN GReturned(1)
    ELSE IF PyItemEq(type_, PyStr(s_TEMP)) THEN GReturned(10)
    ELSE IF range_.t # "str" THEN GRaised("TypeError")
    ELSE IF digit_factor(range_.v) = 0 \/ range_factor(range_.v) = 0
    THEN GReturned(1)
    ELSE GReturned((digit_factor(range_.v) * range_factor(range_.v) * unit_factor(range_.v)) \div 100)

\* lines 326-368, one turn of the loop: the scale of a channel of the given
\* type and range.  The products are taken in hundredths; each of them is a
\* whole number of hundredths, and the scale of every range of a group is a
\* whole number
channel_scale(type_, range_) ==
    IF type_.t = "None" \/ range_.t = "None" THEN GReturned(1)
    ELSE IF PyItemEq(type_, PyStr(s_TEMP)) THEN GReturned(10)
    ELSE IF range_.t # "str" THEN GRaised("TypeError")
    ELSE IF digit_factor(range_.v) = 0 \/ range_factor(range_.v) = 0
    THEN GRaised("ValueError")
    ELSE GReturned((digit_factor(range_.v) * range_factor(range_.v) * unit_factor(range_.v)) \div 100)

RECURSIVE scales_loop(_, _, _)
\* lines 326-368: for name, type_, range_ in zip(names, types, ranges)
scales_loop(types, ranges, acc) ==
    IF Len(types) = 0 THEN GReturned(acc)
    ELSE LET s == channel_scale(types[1], ranges[1])
         IN  IF s.raised THEN s
             ELSE scales_loop(Tail(types), Tail(ranges), Append(acc, s.value))

\* lines 319-370
get_data_scales(hdr) ==
    LET n == get_data_names(hdr)
        t == get_data_types(hdr)
        r == get_data_ranges(hdr)
    IN  IF n.raised THEN n
        ELSE IF t.raised THEN t
        ELSE IF r.raised THEN r
        ELSE scales_loop(t.value, r.value, << >>)

\* lines 380-394, one turn of the loop: the format character of a name
format_char(name) ==
    IF name.t # "str" THEN GRaised("TypeError")
    ELSE IF Contains(name.v, s_CH) THEN GReturned("h")
    ELSE IF Contains(name.v, s_Pulse) THEN GReturned("L")
    ELSE IF Contains(name.v, s_Logic) THEN GReturned("H")
    ELSE IF Contains(name.v, s_Alarm) THEN GReturned("H")
    ELSE IF Contains(name.v, s_AlOut) THEN GReturned("H")
    ELSE IF Contains(name.v, s_Status) THEN GReturned("H")
    ELSE GRaised("ValueError")

RECURSIVE format_loop(_, _)
format_loop(items, acc) ==
    IF Len(items) = 0 THEN GReturned(acc)
    ELSE LET c == format_char(items[1])
         IN  IF c.raised THEN c ELSE format_loop(Tail(items), Append(acc, c.value))

BIG_ENDIAN == ">"

\* lines 373-396: the format of the Struct of the reader
get_data_reader(hdr) ==
    LET n == get_data_names(hdr)
    IN  IF n.raised THEN n
        ELSE IF n.value.t = "int" THEN GRaised("TypeError")
        ELSE LET f == format_loop(py_iter(n.value), << >>)
             IN  IF f.raised THEN f ELSE GReturned(<< BIG_ENDIAN >> \o f.value)

\* "T".join(header["Common"]["Time"]["Start"]), line 269
join_start(v) ==
    IF v.t = "list"
    THEN IF \A k \in 1 .. Len(v.v) : v.v[k].t = "str"
         THEN GReturned(str_join(<< "T" >>, [k \in 1 .. Len(v.v) |-> v.v[k].v]))
         ELSE GRaised("TypeError")
    ELSE IF v.t = "str"
    THEN GReturned(str_join(<< "T" >>, [k \in 1 .. Len(v.v) |-> << v.v[k] >>]))
    ELSE GRaised("TypeError")

TwoDigits(s, p) == 10 * DigitVal(s[p]) + DigitVal(s[p + 1])

\* the start is a date and a time of day, YYYY-MM-DDThh:mm:ss
IsoStart(s) ==
    /\ Len(s) = 19
    /\ \A p \in {1, 2, 3, 4, 6, 7, 9, 10, 12, 13, 15, 16, 18, 19} : s[p] \in DigitChars
    /\ s[5] = "-" /\ s[8] = "-" /\ s[11] = "T" /\ s[14] = ":" /\ s[17] = ":"
    /\ TwoDigits(s, 6) \in 1 .. 12
    /\ TwoDigits(s, 9) \in 1 .. 31
    /\ TwoDigits(s, 12) < 24 /\ TwoDigits(s, 15) < 60 /\ TwoDigits(s, 18) < 60

MsPerSecond == 1000

MsPerDay == 86400000

\* the time of day of the start, in milliseconds
start_ms(s) ==
    ((TwoDigits(s, 12) * 60 + TwoDigits(s, 15)) * 60 + TwoDigits(s, 18)) * MsPerSecond

\* the step of a frequency string in milliseconds: a count, 1 when left out,
\* of milliseconds (ms, L) or of seconds (s, S); 0 for another string
freq_ms(f) ==
    IF f.t # "str" THEN 0
    ELSE LET n     == RunIn(f.v, 1, DigitChars)
             count == IF n = 0 THEN 1 ELSE IntOfDigits(SubSeq(f.v, 1, n))
             alias == Tail_(f.v, n)
         IN  IF alias \in {<< "m", "s" >>, << "L" >>} THEN count
             ELSE IF alias \in {<< "s" >>, << "S" >>} THEN count * MsPerSecond
             ELSE 0

\* a time stamp: the date of the start, whole days after it and the time of day
Stamp(date, t) == [date |-> date, days |-> t \div MsPerDay, ms |-> t % MsPerDay]

\* pd.date_range(start, None, periods, freq), line 273
date_range(start, periods, freq) ==
    IF ~IsoStart(start) \/ freq_ms(freq) = 0 \/ periods < 0 THEN GRaised("ValueError")
    ELSE GReturned([k \in 1 .. periods |->
                       Stamp(SubSeq(start, 1, 10), start_ms(start) + (k - 1) * freq_ms(freq))])

\* lines 267-273
get_data_index(hdr) ==
    LET st == Lookup(hdr, << s_Common, s_Time >>, s_Start)
        fr == Lookup(hdr, << s_Common, s_Data >>, s_Sample)
        n  == get_data_length(hdr)
    IN  IF st.raised THEN st
        ELSE IF join_start(st.value).raised THEN join_start(st.value)
        ELSE IF fr.raised THEN fr
        ELSE IF n.raised THEN n
        ELSE date_range(join_start(st.value).value, n.value, fr.value)

\* the bytes of a field of the format
field_size(c) == IF c = "L" THEN 4 ELSE 2

RECURSIVE struct_size(_)
\* Struct(format).size without the byte order mark: no padding with ">"
struct_size(fmt) == IF Len(fmt) = 0 THEN 0 ELSE field_size(fmt[1]) + struct_size(Tail(fmt))

RECURSIVE be_uint(_)
\* the bytes as a number, the first the most significant
be_uint(bytes) ==
    IF Len(bytes) = 0 THEN 0
    ELSE 256 * be_uint(SubSeq(bytes, 1, Len(bytes) - 1)) + bytes[Len(bytes)]

\* one field: h is signed, H and L are not
unpack_field(c, bytes) ==
    IF c = "h" /\ be_uint(bytes) >= 32768 THEN be_uint(bytes) - 65536 ELSE be_uint(bytes)

RECURSIVE unpack_fields(_, _)
unpack_fields(fmt, bytes) ==
    IF Len(fmt) = 0 THEN << >>
    ELSE << unpack_field(fmt[1], SubSeq(bytes, 1, field_size(fmt[1]))) >>
             \o unpack_fields(Tail(fmt), Tail_(bytes, field_size(fmt[1])))

\* a variant of reader_unpack that fills a short buffer with zero bytes
reader_unpack_padded(fmt, bytes) ==
    GReturned(unpack_fields(Tail(fmt),
        [k \in 1 .. struct_size(Tail(fmt)) |-> IF k <= Len(bytes) THEN bytes[k] ELSE 0]))

\* struct.unpack(buffer), the format with its byte order mark
reader_unpack(fmt, bytes) ==
    IF Len(bytes) # struct_size(Tail(fmt)) THEN GRaised("struct.error")
    ELSE GReturned(unpack_fields(Tail(fmt), bytes))

\* f.read(n) at offset pos of the file, for pos at or after the end of the
\* header
read_payload(file, pos, n) ==
    SubSeq(file.payload, Clamp(pos - HeaderEnd(file), 0, Len(file.payload)) + 1,
           Clamp(pos - HeaderEnd(file) + n, 0, Len(file.payload)))

RECURSIVE GCD(_, _)
GCD(x, y) == IF y = 0 THEN x ELSE GCD(y, x % y)

Abs(x) == IF x < 0 THEN 0 - x ELSE x

\* the quotient n / d, d > 0, in lowest terms
Quotient(n, d) ==
    LET g == GCD(Abs(n), d) IN [num |-> n \div g, den |-> d \div g]

\* str(x) in an f-string
py_str(x) ==
    IF x.t = "str" THEN x.v
    ELSE IF x.t = "None" THEN << "N", "o", "n", "e" >>
    ELSE py_repr(x)

\* a variant of column_name without the unit
column_name_bare(name, unit) == py_str(name)

\* f"{name} ({unit})", line 203
column_name(name, unit) == py_str(name) \o << " ", "(" >> \o py_str(unit) \o << ")" >>

(***************************************************************************)
(* The files get_data is called on: headers as the logger writes them, one *)
(* page long, and a payload of records of the channels.                    *)
(***************************************************************************)
MaxCounts == 2

\* the sixteen ranges of the logger
Ranges ==
    { <<"1", "0", "m", "V">>,
      <<"2", "0", "m", "V">>,
      <<"5", "0", "m", "V">>,
      <<"1", "0", "0", "m", "V">>,
      <<"2", "0", "0", "m", "V">>,
      <<"5", "0", "0", "m", "V">>,
      <<"1", "V">>,
      <<"2", "V">>,
      <<"5", "V">>,
      <<"1", "0", "V">>,
      <<"2", "0", "V">>,
      <<"5", "0", "V">>,
      <<"1", "0", "0", "V">>,
      <<"2", "0", "0", "V">>,
      <<"5", "0", "0", "V">>,
      <<"1", "0", "0", "0", "V">> }

\* ranges the logger does not have
OtherRanges ==
    { <<"7", "V">>, <<"4", "V">>, <<"4", "0", "m", "V">>, <<"1", "2", "V">>, <<"1", "-", "5", "V">>, <<"3", "0">>, <<"V">> }

\* a channel of a file: its name, the items of its row of $Amp and of its row
\* of $Measure $$Scale (<< >> for no row), the bytes and the sign of its field
Channel(name, amp, scale, width, kind) ==
    [name |-> name, amp |-> amp, scale |-> scale, width |-> width, kind |-> kind]

s_On == <<"O", "n">>

s_Off == <<"O", "f", "f">>

s_DC == <<"D", "C">>

\* the row of $Amp: the type is its second item, the range its third
AmpItems(type_, range_) ==
    s_On \o << ",", " " >> \o type_ \o << ",", " " >> \o range_ \o << ",", " " >> \o s_Off

\* the row of $Measure $$Scale: the unit is its seventh item
ScaleItems(unit) ==
    <<"O", "f", "f", ",", " ", "+", "0", ",", " ", "+", "1", ",", " ", "+", "0", ",", " ", "+", "1", ",", " ", "2", ",", " ">> \o unit

s_V == << "V" >>

RangeUnit(range_) == IF Contains(range_, s_mV) THEN s_mV ELSE s_V

\* CH1 as a voltage channel of every range of the logger, the unit that of
\* the range
VoltageChannels ==
    { Channel(<<"C", "H", "1">>, AmpItems(s_DC, r), ScaleItems(RangeUnit(r)), 2, "signed") : r \in Ranges }

\* CH1 with a range the logger does not have
OtherRangeChannels ==
    { Channel(<<"C", "H", "1">>, AmpItems(s_DC, r), ScaleItems(RangeUnit(r)), 2, "signed") : r \in OtherRanges }

\* CH1 as a temperature channel, the range one of the logger, another one, or
\* the name of a thermocouple
TempChannels ==
    { Channel(<<"C", "H", "1">>, AmpItems(s_TEMP, r), ScaleItems(u), 2, "signed") :
          r \in {<<"1", "0", "V">>, <<"7", "V">>, <<"T", "C", "-", "K">>, <<"1", "0", "0">>}, u \in {<<"V">>, <<"d", "e", "g", "C">>} }

\* CH1 with a unit of its own in $Measure $$Scale, with no row there, with a
\* short row there, and with no row in $Amp
UnitChannels ==
    { Channel(<<"C", "H", "1">>, AmpItems(s_DC, r), ScaleItems(u), 2, "signed") :
          r \in {<<"5", "V">>, <<"2", "0", "m", "V">>}, u \in {<<"V">>, <<"m", "V">>, <<"G">>, <<"m", "/", "s", "2">>} }
        \cup { Channel(<<"C", "H", "1">>, AmpItems(s_DC, <<"1", "0", "V">>), << >>, 2, "signed"),
               Channel(<<"C", "H", "1">>, AmpItems(s_DC, <<"1", "0", "V">>), <<"O", "f", "f", ",", " ", "+", "0", ",", " ", "+", "1">>, 2, "signed"),
               Channel(<<"C", "H", "1">>, << >>, ScaleItems(s_V), 2, "signed") }

CH1 == Channel(<<"C", "H", "1">>, AmpItems(s_DC, <<"1", "0", "V">>), ScaleItems(s_V), 2, "signed")

CH1mV == Channel(<<"C", "H", "1">>, AmpItems(s_DC, <<"1", "0", "m", "V">>), ScaleItems(s_mV), 2, "signed")

CH2 == Channel(<<"C", "H", "2">>, AmpItems(s_DC, <<"2", "V">>), ScaleItems(s_V), 2, "signed")

Pulse1 == Channel(<<"P", "u", "l", "s", "e", "1">>, << >>, << >>, 4, "unsigned")

Logic == Channel(<<"L", "o", "g", "i", "c">>, << >>, << >>, 2, "unsigned")

Alarm1 == Channel(<<"A", "l", "a", "r", "m", "1">>, << >>, << >>, 2, "unsigned")

AlOut == Channel(<<"A", "l", "O", "u", "t">>, << >>, << >>, 2, "unsigned")

Status == Channel(<<"S", "t", "a", "t", "u", "s">>, << >>, << >>, 2, "unsigned")

Foo == Channel(<<"F", "o", "o">>, << >>, << >>, 2, "unsigned")

RECURSIVE be_bytes(_, _)
\* the n bytes of v, the first the most significant
be_bytes(v, n) == IF n = 0 THEN << >> ELSE be_bytes(v \div 256, n - 1) \o << v % 256 >>

\* the field of a channel holding v, negative values in two's complement
FieldBytes(ch, v) == be_bytes(IF v < 0 THEN v + 65536 ELSE v, ch.width)

\* what the logger measured: the value of a channel in the k-th record
Measured(ch, pattern, k) ==
    IF pattern = "rising"
    THEN IF ch.kind = "signed" THEN 100 * k
         ELSE IF ch.width = 4 THEN 16777216 + 70000 * k
         ELSE 65536 - k
    ELSE IF ch.kind = "signed" THEN 0 - 350 * k
         ELSE k

RECURSIVE RecordBytes(_, _, _)
RecordBytes(chs, pattern, k) ==
    IF Len(chs) = 0 THEN << >>
    ELSE FieldBytes(chs[1], Measured(chs[1], pattern, k)) \o RecordBytes(Tail(chs), pattern, k)

RECURSIVE PayloadBytes(_, _, _)
\* the records 1 .. n, one after the other
PayloadBytes(chs, pattern, n) ==
    IF n = 0 THEN << >>
    ELSE PayloadBytes(chs, pattern, n - 1) \o RecordBytes(chs, pattern, n)

s_Eq == << " ", "=", " " >>

s_Sep == << ",", " " >>

RowsOf(chs, field) ==
    LET with == SelectSeq(chs, LAMBDA c : Len(c[field]) > 0)
    IN  [k \in 1 .. Len(with) |-> with[k].name \o s_Eq \o with[k][field]]

\* the rows of the header of a file of the channels chs
DataRows(chs, counts, sample, start) ==
    << s_HeaderSiz \o s_Eq \o DigitsOf(FirstPage),
       << "$" >> \o s_Common,
       << "$", "$" >> \o s_Data,
       s_Order \o s_Eq \o str_join(s_Sep, [k \in 1 .. Len(chs) |-> chs[k].name]),
       s_Counts \o s_Eq \o DigitsOf(counts),
       s_Sample \o s_Eq \o sample,
       << "$", "$" >> \o s_Time,
       s_Start \o s_Eq \o start,
       << "$" >> \o s_Amp >>
        \o RowsOf(chs, "amp")
        \o << << "$" >> \o s_Measure, << "$", "$" >> \o s_Scale >>
        \o RowsOf(chs, "scale")

\* the file: the header on one page, the payload without its last cut bytes
DataFile(chs, counts, sample, start, pattern, cut) ==
    LET bytes == PayloadBytes(chs, pattern, counts)
    IN  MakeFile(0, Lines(DataRows(chs, counts, sample, start)), 1,
                 SubSeq(bytes, 1, Len(bytes) - Min(cut, Len(bytes))))

Midnight2020 == <<"2", "0", "2", "0", "-", "0", "1", "-", "0", "1", ",", " ", "0", "0", ":", "0", "0", ":", "0", "0">>

TestStart == <<"2", "0", "2", "0", "-", "1", "1", "-", "2", "3", ",", " ", "0", "9", ":", "4", "0", ":", "0", "0">>

YearEnd == <<"2", "0", "2", "0", "-", "1", "2", "-", "3", "1", ",", " ", "2", "3", ":", "5", "9", ":", "5", "9">>

s_10ms == <<"1", "0", "m", "s">>

\* files of two channels, CH1 in each of its kinds
KindLists ==
    { << c, Status >> :
          c \in VoltageChannels \cup OtherRangeChannels \cup TempChannels \cup UnitChannels }

\* files of one channel, and of more in several orders
OrderLists ==
    { << CH1 >>, << CH1mV >>, << Status >>, << Foo >>,
      << CH1, CH2, Pulse1, Logic, Alarm1, AlOut, Status >>,
      << Status, Pulse1, CH1mV >>,
      << CH1, Foo, Status >>, << Foo, CH1 >>, << CH2, Status, Foo >> }

\* files whose length, start, sampling and payload vary
TimedLists == { << CH1, Status >>, << CH1mV, Pulse1, Status >>, << CH1 >>, << CH2, Foo >> }

DataFiles ==
    { DataFile(chs, MaxCounts, s_10ms, Midnight2020, "rising", 0) :
          chs \in KindLists \cup OrderLists }
        \cup { DataFile(chs, n, sample, start, pattern, cut) :
                   chs \in TimedLists, n \in 0 .. MaxCounts,
                   sample \in {s_10ms, <<"1", "0", "L">>, <<"1", "s">>, <<"5", "m", "s">>, <<"1", "0", "x">>},
                   start \in {Midnight2020, TestStart, YearEnd},
                   pattern \in {"rising", "falling"}, cut \in {0, 1} }
        \cup { DataFile(<< c, Status >>, MaxCounts, <<"1", "0", "x">>, Midnight2020, "rising", 0) :
                   c \in OtherRangeChannels }

InitDataFiles ==
    /\ gbd \in DataFiles
    /\ g_pc = "idle"
    /\ g_op = "none"
    /\ g_err = "none"
    /\ g_ret = NoValue
    /\ header_rows = << >>
    /\ g_row = 0
    /\ section = << >>
    /\ toml_rows = << >>
    /\ header = NoValue
    /\ names = NoValue
    /\ units = NoValue
    /\ scales = NoValue
    /\ length_ = 0
    /\ index = NoValue
    /\ format_ = NoValue
    /\ data = << >>
    /\ g_i = 0

headerVars == <<header_rows, g_row, section, toml_rows>>

\* the call get_data(path); line 183 is get_header
Call_get_data ==
    /\ g_pc = "idle"
    /\ g_op' = "get_data"
    /\ g_pc' = "gh_read"
    /\ UNCHANGED <<gbd, g_err, g_ret, header>>
    /\ UNCHANGED headerVars
    /\ UNCHANGED getDataVars
    /\ UNCHANGED notGbdVars

\* lines 185-186: names = get_data_names(header); units = get_data_units(header)
gd_names ==
    /\ g_pc = "gd_names"
    /\ LET n == get_data_names(header)
           u == get_data_units(header)
       IN  IF n.raised THEN GRaise(n.error) /\ UNCHANGED <<names, units>>
           ELSE IF u.raised THEN GRaise(u.error) /\ names' = n.value /\ units' = units
           ELSE /\ names' = n.value
                /\ units' = u.value
                /\ g_pc' = "gd_scales"
                /\ g_err' = g_err
    /\ UNCHANGED <<gbd, g_op, g_ret, header, scales, length_, index, format_, data, g_i>>
    /\ UNCHANGED headerVars
    /\ UNCHANGED notGbdVars

\* line 187: scales = get_data_scales(header)
gd_scales ==
    /\ g_pc = "gd_scales"
    /\ LET s == get_data_scales(header)
       IN  IF s.raised THEN GRaise(s.error) /\ scales' = scales
           ELSE scales' = s.value /\ g_pc' = "gd_index" /\ g_err' = g_err
    /\ UNCHANGED <<gbd, g_op, g_ret, header, names, units, length_, index, format_, data, g_i>>
    /\ UNCHANGED headerVars
    /\ UNCHANGED notGbdVars

\* lines 188-189: length = get_data_length(header); index = get_data_index(header)
gd_index ==
    /\ g_pc = "gd_index"
    /\ LET n == get_data_length(header)
           x == get_data_index(header)
       IN  IF n.raised THEN GRaise(n.error) /\ UNCHANGED <<length_, index>>
           ELSE IF x.raised THEN GRaise(x.error) /\ length_' = n.value /\ index' = index
           ELSE /\ length_' = n.value
                /\ index' = x.value
                /\ g_pc' = "gd_reader"
                /\ g_err' = g_err
    /\ UNCHANGED <<gbd, g_op, g_ret, header, names, units, scales, format_, data, g_i>>
    /\ UNCHANGED headerVars
    /\ UNCHANGED notGbdVars

\* line 190: read = get_data_reader(header)
gd_reader ==
    /\ g_pc = "gd_reader"
    /\ LET r == get_data_reader(header)
       IN  IF r.raised THEN GRaise(r.error) /\ format_' = format_
           ELSE format_' = r.value /\ g_pc' = "gd_open" /\ g_err' = g_err
    /\ UNCHANGED <<gbd, g_op, g_ret, header, names, units, scales, length_, index, data, g_i>>
    /\ UNCHANGED headerVars
    /\ UNCHANGED notGbdVars

\* lines 192-196: data = np.zeros([length, len(names)]); the file is opened
\* and the header skipped
gd_open ==
    /\ g_pc = "gd_open"
    /\ LET r == get_header_size(gbd)
       IN  IF r.raised THEN GRaise(r.error) /\ UNCHANGED <<data, g_i>>
           ELSE /\ data' = [k \in 1 .. length_ |-> [j \in 1 .. Len(py_iter(names)) |-> 0]]
                /\ g_i' = 0
                /\ g_pc' = "gd_for"
                /\ g_err' = g_err
    /\ UNCHANGED <<gbd, g_op, g_ret, header, names, units, scales, length_, index, format_>>
    /\ UNCHANGED headerVars
    /\ UNCHANGED notGbdVars

\* lines 198-199: data[i] = read(f), the file at the end of the records read
gd_read ==
    /\ g_pc = "gd_for"
    /\ g_i < length_
    /\ LET size == struct_size(Tail(format_))
           r    == reader_unpack(format_,
                       read_payload(gbd, get_header_size(gbd).value + g_i * size, size))
       IN  IF r.raised THEN GRaise(r.error) /\ UNCHANGED <<data, g_i>>
           ELSE /\ data' = [data EXCEPT ![g_i + 1] = r.value]
                /\ g_i' = g_i + 1
                /\ UNCHANGED <<g_pc, g_err>>
    /\ UNCHANGED <<gbd, g_op, g_ret, header, names, units, scales, length_, index, format_>>
    /\ UNCHANGED headerVars
    /\ UNCHANGED notGbdVars

\* lines 201-204: data /= scales; the DataFrame of data, index and cols
gd_return ==
    /\ g_pc = "gd_for"
    /\ g_i = length_
    /\ data' = [k \in 1 .. Len(data) |->
                   [j \in 1 .. Len(data[k]) |-> Quotient(data[k][j], scales[j])]]
    /\ g_ret' = [values  |-> data',
                 index   |-> index,
                 columns |-> [j \in 1 .. Min(Len(py_iter(names)), Len(units)) |->
                                 column_name(py_iter(names)[j], units[j])]]
    /\ g_pc' = "done"
    /\ UNCHANGED <<gbd, g_op, g_err, header, names, units, scales, length_, index, format_, g_i>>
    /\ UNCHANGED headerVars
    /\ UNCHANGED notGbdVars

\* a variant of gd_to_zarr that writes whatever the call ended with
gd_to_zarr_always ==
    /\ g_op = "get_data"
    /\ g_pc \in {"done", "raised"}
    /\ dest' = [exists |-> TRUE, content |-> << "accelerometer" >>]
    /\ g_pc' = "written"
    /\ UNCHANGED <<gbd, g_op, g_err, g_ret, header>>
    /\ UNCHANGED headerVars
    /\ UNCHANGED getDataVars
    /\ UNCHANGED <<corrVars, corr_store, bitVars, convVars, wxVars>>

\* to_zarr, lines 155-157, the destination absent: the call of get_data is the
\* one of line 155, and once it has returned the table is written with
\* ds.to_zarr(path_zarr, mode="w")
gd_to_zarr ==
    /\ g_op = "get_data"
    /\ g_pc = "done"
    /\ dest' = [exists |-> TRUE, content |-> << "accelerometer" >>]
    /\ g_pc' = "written"
    /\ UNCHANGED <<gbd, g_op, g_err, g_ret, header>>
    /\ UNCHANGED headerVars
    /\ UNCHANGED getDataVars
    /\ UNCHANGED <<corrVars, corr_store, bitVars, convVars, wxVars>>

(***************************************************************************)
(* Part 7: weather.convert (nro45_merge/weather.py:19-98).  A row of a CSV *)
(* file is [t, wind_speed, wind_direction], t in minutes of Japan standard *)
(* time; a DataFrame is the sequence of its rows, t the index.             *)
(***************************************************************************)
JST_HOURS == 9

MinutesPerHour == 60

MaxCsvRows == 3

\* the first minute of the logs
LogStart == 600

LogTimes == {LogStart + k : k \in 0 .. MaxCsvRows - 1}

WindSpeeds == {3, 5}

WindDirections == {90, 180}

CsvRow(t, speed, direction) == [t |-> t, wind_speed |-> speed, wind_direction |-> direction]

\* the logs: a row for some of the minutes, in the order of time
CsvFiles ==
    { f \in UNION { [1 .. n -> { CsvRow(t, s, d) : t \in LogTimes, s \in WindSpeeds,
                                                   d \in WindDirections }] :
                        n \in 0 .. MaxCsvRows } :
          \A k \in 1 .. Len(f) - 1 : f[k].t < f[k + 1].t }

\* path_csv: one log, or two logs of a row for every minute that overlap in
\* all but their first and last rows
CsvPaths ==
    { << f >> : f \in CsvFiles }
        \cup { << SubSeq(f, 1, Len(f) - 1), SubSeq(f, 2, Len(f)) >> :
                   f \in { g \in CsvFiles : Len(g) = MaxCsvRows } }

RECURSIVE drop_duplicates(_)
\* DataFrame.drop_duplicates(): of the rows whose columns are equal the first
\* is kept; the index is no column
drop_duplicates(df) ==
    IF Len(df) = 0 THEN << >>
    ELSE LET n == Len(df)
         IN  IF \E j \in 1 .. n - 1 :
                    /\ df[j].wind_speed = df[n].wind_speed
                    /\ df[j].wind_direction = df[n].wind_direction
             THEN drop_duplicates(SubSeq(df, 1, n - 1))
             ELSE Append(drop_duplicates(SubSeq(df, 1, n - 1)), df[n])

\* lines 77-78: df.to_xarray() with the time moved from JST to UTC
to_utc(df) ==
    [k \in 1 .. Len(df) |->
        [t              |-> df[k].t - JST_HOURS * MinutesPerHour,
         wind_speed     |-> df[k].wind_speed,
         wind_direction |-> df[k].wind_direction]]

IdleWx ==
    /\ wx_csv = << >>
    /\ wx_args = [overwrite |-> FALSE, progress |-> FALSE]
    /\ wx_dest = [exists |-> FALSE, samples |-> << >>]
    /\ wx_pc = "off"
    /\ wx_err = "none"
    /\ wx_df = << >>
    /\ wx_k = 0

InitWx ==
    /\ wx_csv \in CsvPaths
    /\ wx_args \in [overwrite : BOOLEAN, progress : BOOLEAN]
    /\ wx_dest \in {[exists |-> FALSE, samples |-> << >>],
                    [exists |-> TRUE, samples |-> << CsvRow(0, 0, 0) >>]}
    /\ wx_pc = "idle"
    /\ wx_err = "none"
    /\ wx_df = << >>
    /\ wx_k = 0

notWxVars == <<corrVars, guardVars, bitVars, convVars, gbdVars>>

\* the call convert(path_csv, path_zarr, ...)
Call_weather_convert ==
    /\ wx_pc = "idle"
    /\ wx_pc' = "exists"
    /\ UNCHANGED <<wx_csv, wx_args, wx_dest, wx_err, wx_df, wx_k>>
    /\ UNCHANGED notWxVars

\* lines 51-65: the destination is checked, df is an empty DataFrame
weather_convert_exists ==
    /\ wx_pc = "exists"
    /\ IF wx_dest.exists /\ ~wx_args.overwrite
       THEN wx_pc' = "raised" /\ wx_err' = "FileExistsError"
       ELSE wx_pc' = "for" /\ wx_err' = wx_err
    /\ wx_df' = << >>
    /\ wx_k' = 0
    /\ UNCHANGED <<wx_csv, wx_args, wx_dest>>
    /\ UNCHANGED notWxVars

\* lines 67-74: df = df.append(pd.read_csv(path)).drop_duplicates()
weather_convert_read ==
    /\ wx_pc = "for"
    /\ wx_k < Len(wx_csv)
    /\ wx_df' = drop_duplicates(wx_df \o wx_csv[wx_k + 1])
    /\ wx_k' = wx_k + 1
    /\ UNCHANGED <<wx_csv, wx_args, wx_dest, wx_pc, wx_err>>
    /\ UNCHANGED notWxVars

\* lines 77-98: the Dataset of df, in UTC, is written to the store with mode
\* "w", under a progress bar or not
weather_convert_write ==
    /\ wx_pc = "for"
    /\ wx_k = Len(wx_csv)
    /\ wx_dest' = [exists |-> TRUE, samples |-> to_utc(wx_df)]
    /\ wx_pc' = "done"
    /\ UNCHANGED <<wx_csv, wx_args, wx_err, wx_df, wx_k>>
    /\ UNCHANGED notWxVars

(***************************************************************************)
(* The specifications: one per part, the other parts standing still.       *)
(***************************************************************************)
Init == InitCorr /\ IdleBits /\ IdleConv /\ IdleGbd /\ IdleWx

Next == NextCorr \/ NextGuard

\* Parts 1 and 2: the converters and the merge functions
Spec == Init /\ [][Next]_vars

InitSlice == IdleCorr /\ InitBits /\ IdleConv /\ IdleGbd /\ IdleWx

NextSlice == Call_slice_binary

\* Part 3: slice_binary on every word and range of InitBits
SpecSlice == InitSlice /\ [][NextSlice]_vars

InitConvert == IdleCorr /\ IdleBits /\ InitConv /\ IdleGbd /\ IdleWx

NextConvert ==
    \/ Call_convert
    \/ convert_exists
    \/ convert_time
    \/ convert_write

\* Part 4: convert on every raw store of InitConv
SpecConvert == InitConvert /\ [][NextConvert]_vars

InitHeader == IdleCorr /\ IdleBits /\ IdleConv /\ InitHeaderFiles /\ IdleWx

NextHeader ==
    \/ Call_get_header_size
    \/ get_header_size_return
    \/ Call_get_header
    \/ get_header_read
    \/ get_header_row
    \/ get_header_parse

\* Part 5: get_header_size and get_header on every file of HeaderFiles
SpecHeader == InitHeader /\ [][NextHeader]_vars
(***************************************************************************)
(* Properties of the correlator codec                                      *)
(***************************************************************************)
SrcU32(o) ==
    << SrcByte(vdif_file, o) + 256 * SrcByte(vdif_file, o + 1),
       SrcByte(vdif_file, o + 2) + 256 * SrcByte(vdif_file, o + 3) >>

InitWeather == IdleCorr /\ IdleBits /\ IdleConv /\ IdleGbd /\ InitWx

NextWeather ==
    \/ Call_weather_convert
    \/ weather_convert_exists
    \/ weather_convert_read
    \/ weather_convert_write

\* Part 7: weather.convert on every path_csv of CsvPaths
SpecWeather == InitWeather /\ [][NextWeather]_vars

InitData == IdleCorr /\ IdleBits /\ IdleConv /\ InitDataFiles /\ IdleWx

NextData ==
    \/ Call_get_data
    \/ get_header_read
    \/ get_header_row
    \/ get_header_parse
    \/ gd_names
    \/ gd_scales
    \/ gd_index
    \/ gd_reader
    \/ gd_open
    \/ gd_read
    \/ gd_return
    \/ gd_to_zarr

\* Part 6: get_data on every file of DataFiles
SpecData == InitData /\ [][NextData]_vars

SrcI16(o) ==
    LET u == SrcByte(vdif_file, o) + 256 * SrcByte(vdif_file, o + 1)
    IN  IF u < 32768 THEN u ELSE u - 65536

IsTruncated == vdif_file.size % 1312 # 0

\* the file-system operations that open, allocate, read or write something
Touches(e) == e[1] \in {"open_w", "open_r", "empty", "read", "write"}

NoTouch == \A k \in 1 .. Len(io) : ~Touches(io[k])

\* C1: round-trip identity. When to_vdif has returned, after to_zarr converted
\* the source with any accepted seconds_per_chunk, the written file has the
\* length of the source and the same byte at every offset.
C1_RoundTripIdentity ==
    pc = "tv_done" =>
        /\ out_file.exists
        /\ Len(out_file.bytes) = vdif_file.size
        /\ \A o \in 0 .. vdif_file.size - 1 :
              out_file.bytes[o + 1] = SrcByte(vdif_file, o)

\* a round trip of a source of two chunks or more, over an existing output
C1_Witness ==
    /\ pc = "tv_done"
    /\ vdif_file.size >= 2 * 1312 * UnitsPerSecond
    /\ zarr.arrays["vdif_head"].chunks < zarr.arrays["vdif_head"].shape
    /\ dest0 = OldFile

\* C7: index preservation. When to_zarr has returned, each array has one row
\* per unit of the source, and row k holds the 8 uint32, 64 uint32 and
\* 512 int16 little-endian values at byte offsets 1312k, 1312k + 32 and
\* 1312k + 288.
C7_IndexPreservation ==
    pc = "tz_done" =>
        /\ DOMAIN zarr.arrays = {"vdif_head", "corr_head", "corr_data"}
        /\ \A n \in DOMAIN zarr.arrays :
              /\ zarr.arrays[n].shape * 1312 = vdif_file.size
              /\ DOMAIN zarr.arrays[n].rows = 0 .. (vdif_file.size \div 1312) - 1
        /\ \A k \in 0 .. (vdif_file.size \div 1312) - 1 :
              /\ zarr.arrays["vdif_head"].rows[k]
                    = [j \in 1 .. 8 |-> SrcU32(1312 * k + 4 * (j - 1))]
              /\ zarr.arrays["corr_head"].rows[k]
                    = [j \in 1 .. 64 |-> SrcU32(1312 * k + 32 + 4 * (j - 1))]
              /\ zarr.arrays["corr_data"].rows[k]
                    = [j \in 1 .. 512 |-> SrcI16(1312 * k + 288 + 2 * (j - 1))]

\* a finished conversion of two chunks or more, with a negative sample and a
\* uint32 above 2^31 in the store
C7_Witness ==
    /\ pc = "tz_done"
    /\ n_chunks >= 2
    /\ \E k \in 0 .. n_units - 1 :
          /\ \E j \in 1 .. 512 : zarr.arrays["corr_data"].rows[k][j] < 0
          /\ \E j \in 1 .. 8 : zarr.arrays["vdif_head"].rows[k][j][2] >= 32768
TruncationError == "RuntimeError: may be truncated"

ChunkingError == "RuntimeError: chunk length"

\* to_zarr is still in its checks, or has ended without returning
InPreflight(pcs) == pc \in (pcs \cup {"raised", "crashed"})

\* C2, as claimed: a source whose length is no multiple of 1312 makes to_zarr
\* fail with the truncation error, before the store is opened, before an array
\* is allocated and before a byte of the source is read.
C2_TruncationAlwaysReported ==
    (args.op = "to_zarr" /\ IsTruncated) =>
        /\ InPreflight({"tz_exists", "tz_stat"})
        /\ NoTouch
        /\ zarr = dest0
        /\ pc = "raised" => err = TruncationError

\* C2, amended: the same, where the destination-exists check passes; where the
\* destination exists and overwrite is not requested, the call fails with
\* FileExistsError instead (still before anything is opened, allocated or read).
C2_TruncationDetection ==
    (args.op = "to_zarr" /\ IsTruncated) =>
        /\ InPreflight({"tz_exists", "tz_stat"})
        /\ NoTouch
        /\ zarr = dest0
        /\ pc = "raised" =>
              err = IF dest0.exists /\ ~args.overwrite
                    THEN "FileExistsError" ELSE TruncationError

\* a truncated source of more than a unit is rejected, overwriting allowed
C2_Witness ==
    /\ args.op = "to_zarr"
    /\ pc = "raised"
    /\ err = TruncationError
    /\ vdif_file.size > 1312
    /\ dest0 = OldStore
    /\ args.overwrite

ChunkMisaligned ==
    /\ ~IsTruncated
    /\ (vdif_file.size \div 1312) % (N_UNITS_PER_SECOND * args.seconds_per_chunk) # 0

\* C3: chunk alignment. A source of whole units whose unit count is no multiple
\* of the units per chunk makes to_zarr fail (with the chunking error once the
\* destination check has passed) before the store is opened or an array
\* allocated: nothing is read and no chunk, whole or partial, is written.
C3_ChunkAlignment ==
    (args.op = "to_zarr" /\ ChunkMisaligned) =>
        /\ InPreflight({"tz_exists", "tz_stat", "tz_divmod"})
        /\ NoTouch
        /\ zarr = dest0
        /\ pc = "raised" =>
              err = IF dest0.exists /\ ~args.overwrite
                    THEN "FileExistsError" ELSE ChunkingError

\* one whole chunk and a trailing partial chunk: rejected, nothing written
C3_Witness ==
    /\ args.op = "to_zarr"
    /\ pc = "raised"
    /\ err = ChunkingError
    /\ n_units > N_UNITS_PER_SECOND * args.seconds_per_chunk
    /\ zarr = NoStore

PreflightErrors == {"FileExistsError", TruncationError, ChunkingError}

\* C5: when to_zarr fails on the destination-exists, the truncation or the
\* chunk-alignment check, the store is exactly what it was before the call.
C5_PreflightLeavesDestination ==
    (args.op = "to_zarr" /\ pc = "raised" /\ err \in PreflightErrors) =>
        zarr = dest0

\* overwrite = True, a store is there, the source is misaligned: the old store
\* is still there, with its old array
C5_Witness ==
    /\ args.op = "to_zarr"
    /\ pc = "raised"
    /\ err \in {TruncationError, ChunkingError}
    /\ args.overwrite
    /\ dest0 = OldStore
    /\ zarr = OldStore

\* this call of to_zarr has opened (emptied) the store
OpenedStore == \E k \in 1 .. Len(io) : io[k] = <<"open_w", "path_zarr">>

\* chunk c of the array is in the store
ChunkIn(name, c) ==
    /\ name \in DOMAIN zarr.arrays
    /\ zarr.arrays[name].rows[c * zarr.arrays[name].chunks] # Unwritten

\* C6, as claimed: if to_zarr is killed at any point, every chunk is in all
\* three arrays of the store it was filling or in none of them.
C6_ChunkAtomicCommit ==
    (crashed /\ OpenedStore) =>
        \A c \in 0 .. n_chunks - 1 :
            /\ ChunkIn("vdif_head", c) = ChunkIn("corr_head", c)
            /\ ChunkIn("corr_head", c) = ChunkIn("corr_data", c)
(***************************************************************************)
(* Properties of the destination-exists checks                             *)
(***************************************************************************)
\* the destination of the running call, as it is now
Destination ==
    CASE args.op = "to_zarr" -> zarr
      [] args.op = "to_vdif" -> out_file
      [] OTHER -> dest

\* the call was made with a destination path that existed: for nro45_merge's
\* merge with in_place that path is the correlator store
DestinationExisted ==
    IF args.op = "nro45_merge.merge"
    THEN args.in_place \/ (args.path_merge_zarr_given /\ dest0.exists)
    ELSE dest0.exists

EntryPc ==
    CASE args.op = "to_zarr" -> "tz_exists"
      [] args.op = "to_vdif" -> "tv_exists"
      [] args.op = "accelerometer.to_zarr" -> "az_exists"
      [] args.op = "merge" -> "mg_exists"
      [] args.op = "nro45_merge.merge" -> "nm_check"

\* the call has done nothing but test whether its destination exists, and
\* has raised FileExistsError if it is over
FailsFirstOnExists ==
    /\ InPreflight({EntryPc})
    /\ pc = "raised" => err = "FileExistsError"
    /\ \A k \in 1 .. Len(io) : io[k][1] = "exists"
    /\ Destination = dest0
    /\ corr_store = << "correlator" >>

\* C4, as claimed: in each of correlator.to_zarr, correlator.to_vdif,
\* accelerometer.to_zarr and merge, a destination that exists without overwrite
\* makes the call fail with FileExistsError as its first effect.
C4_ExistsCheckInEveryOperation ==
    (args.op # "none" /\ DestinationExisted /\ ~args.overwrite) =>
        FailsFirstOnExists

\* C4, amended: the same for every operation but nro45_merge's merge called
\* with in_place, whose destination is the correlator store it appends to.
C4_DestinationExistsCheck ==
    (/\ args.op # "none"
     /\ ~(args.op = "nro45_merge.merge" /\ args.in_place)
     /\ DestinationExisted
     /\ ~args.overwrite) =>
        FailsFirstOnExists

\* to_vdif refuses an existing output file after a successful to_zarr
C4_Witness ==
    /\ args.op = "to_vdif"
    /\ pc = "raised"
    /\ err = "FileExistsError"
    /\ out_file = OldFile
    /\ io = << <<"exists", "path_vdif">> >>
(***************************************************************************)
(* Properties of slice_binary                                              *)
(***************************************************************************)
\* floor(w / 2^s) of a uint32 <<lo, hi>>, by arithmetic on the two digits
ShrU32(w, s) ==
    IF s >= 32 THEN <<0, 0>>
    ELSE IF s >= 16 THEN << w[2] \div Pow2(s - 16), 0 >>
    ELSE << (w[1] \div Pow2(s)) + (w[2] % Pow2(s)) * Pow2(16 - s), w[2] \div Pow2(s) >>

\* w mod 2^l of a uint32 <<lo, hi>>, by arithmetic on the two digits
ModPow2U32(w, l) ==
    IF l >= 32 THEN w
    ELSE IF l >= 16 THEN << w[1], w[2] % Pow2(l - 16) >>
    ELSE << w[1] % Pow2(l), 0 >>

Called == sb_ret # NotCalled

Length == slice_.stop - slice_.start

\* C8: for a range with length >= 1 and start + length <= 32, slice_binary
\* returns floor(word / 2^start) mod 2^length; 0b10110100 from bit 2, four
\* bits long, gives 13; bits 0 to 31 give the word itself.
C8_BitFieldExtraction ==
    (Called /\ slice_.start >= 0 /\ Length >= 1 /\ slice_.start + Length <= 32) =>
        /\ ~sb_ret.raised
        /\ sb_ret.value \subseteq 0 .. 31
        /\ U32OfBits(sb_ret.value) = ModPow2U32(ShrU32(val, slice_.start), Length)
        /\ (val = <<180, 0>> /\ slice_ = [start |-> 2, stop |-> 6])
              => U32OfBits(sb_ret.value) = <<13, 0>>
        /\ slice_ = [start |-> 0, stop |-> 32] => U32OfBits(sb_ret.value) = val

\* a field that straddles the two halves of a word with its top bit set
C8_Witness ==
    /\ Called
    /\ val = <<22136, 37428>>
    /\ slice_ = [start |-> 12, stop |-> 32]
    /\ ~sb_ret.raised
    /\ U32OfBits(sb_ret.value) = <<9029, 9>>

\* C9, as claimed: slice_binary fails when length == 0 or start + length > 32,
\* and in no other case (start and length not negative).
C9_FailsOnMalformedRange ==
    (Called /\ slice_.start >= 0 /\ Length >= 0) =>
        (sb_ret.raised <=> (Length = 0 \/ slice_.start + Length > 32))

\* C9, amended: slice_binary checks no range. It fails only on a negative
\* start or length (Python's negative shift count); with length == 0 it
\* returns 0, and with start + length > 32 the bits of the word from start
\* upward, the bits above 31 being 0.
C9_NoRangeCheck ==
    Called =>
        /\ sb_ret.raised <=> (slice_.start < 0 \/ Length < 0)
        /\ ~sb_ret.raised =>
              U32OfBits(sb_ret.value) = ModPow2U32(ShrU32(val, slice_.start), Length)
        /\ (~sb_ret.raised /\ Length = 0) => sb_ret.value = {}
        /\ (~sb_ret.raised /\ slice_.start + Length > 32) =>
              U32OfBits(sb_ret.value) = ShrU32(val, slice_.start)

\* a range that ends above bit 32 returns the top bits of the word
C9_Witness ==
    /\ Called
    /\ val = <<0, 32768>>
    /\ slice_ = [start |-> 30, stop |-> 34]
    /\ sb_ret = Returned({1})

(***************************************************************************)
(* Properties of convert                                                   *)
(***************************************************************************)
\* the header of unit k of the raw store
Header(k) == [j \in 0 .. N_ROWS_VDIF_HEAD - 1 |-> HeadWord(raw, k, j)]

\* the timestamp convert gives unit k: that of the scan the unit is part of
TimeOfUnit(k) == time[(k \div 64) + 1]

\* t2 - t1 in milliseconds, for two timestamps of the same year and month
DiffMs(t2, t1) ==
    (t2.seconds - t1.seconds) * 1000 + (t2.milliseconds - t1.milliseconds)

SameMonth(t2, t1) == t2.year = t1.year /\ t2.months = t1.months

\* C10, as claimed: two units with identical header fields and consecutive
\* indices within the same second get timestamps 10 ms apart.
C10_TimestampStepPerUnit ==
    cv_pc = "cv_done" =>
        \A k \in 0 .. raw.n_units - 2 :
            (Header(k) = Header(k + 1) /\ k \div 6400 = (k + 1) \div 6400) =>
                /\ SameMonth(TimeOfUnit(k + 1), TimeOfUnit(k))
                /\ DiffMs(TimeOfUnit(k + 1), TimeOfUnit(k)) = 10

\* the two bit fields convert decodes from the header of unit k
Fields(k) ==
    << ModPow2U32(ShrU32(HeadWord(raw, k, 0), 0), 30),
       ModPow2U32(ShrU32(HeadWord(raw, k, 1), 24), 6) >>

\* C10, amended: convert gives one timestamp to each scan of 64 consecutive
\* units; two consecutive scans within the same second (100 scans) whose
\* first units have identical header fields (the seconds of word 0 and the
\* epoch of word 1 suffice) get timestamps exactly 10 ms apart.
C10_TimestampStepPerScan ==
    cv_pc = "cv_done" =>
        /\ Len(time) * 64 = raw.n_units
        /\ \A s \in 0 .. Len(time) - 2 :
              (Fields(64 * s) = Fields(64 * (s + 1)) /\ s \div 100 = (s + 1) \div 100) =>
                  /\ SameMonth(time[s + 2], time[s + 1])
                  /\ DiffMs(time[s + 2], time[s + 1]) = 10

\* two seconds of scans with one header throughout: scans 98 and 99 are
\* 10 ms apart, scan 100 starts again at 0 ms
C10_Witness ==
    /\ cv_pc = "cv_done"
    /\ raw.mode = "same"
    /\ Len(time) > 100
    /\ Header(64 * 98) = Header(64 * 99)
    /\ time[100].milliseconds = 990
    /\ time[101].milliseconds = 0
    /\ time[100].seconds = 7
    /\ time[100].months = 6 * 41
(***************************************************************************)
(* Properties of get_header and get_header_size                            *)
(***************************************************************************)
\* the number of "$" a row starts with
Dollars(row) == RunIn(row, 1, {"$"})

\* the row is a section marker: "$"s and a name
IsMarker(row) == Dollars(row) >= 1 /\ Len(row) >= 2

\* the row is an assignment: a key of word characters, "=", a value
IsAssignment(row) ==
    /\ ~IsMarker(row)
    /\ \E k \in 1 .. Len(row) - 2 :
          /\ \A j \in 1 .. k : row[j] \in WordChars
          /\ row[k + 1] = "="

KeyOf(row) == SubSeq(row, 1, RunNotIn(row, 1, {"="}))

ItemsOf(row) == str_split_on(Tail_(row, RunNotIn(row, 1, {"="}) + 1), ",")

\* the last marker of the given depth among rows lo + 1 .. hi - 1, or 0
LastMarker(rows, depth, lo, hi) ==
    LET J == {j \in lo + 1 .. hi - 1 : IsMarker(rows[j]) /\ Dollars(rows[j]) = depth}
    IN  IF J = {} THEN 0 ELSE CHOOSE j \in J : \A k \in J : k <= j

MarkerName(rows, j) == IF j = 0 THEN << >> ELSE << Tail_(rows[j], Dollars(rows[j])) >>

\* the section path in effect at row r
SectionPathAt(rows, r) ==
    LET l1 == LastMarker(rows, 1, 0, r)
        l2 == LastMarker(rows, 2, l1, r)
        l3 == LastMarker(rows, 3, IF l2 > l1 THEN l2 ELSE l1, r)
    IN  MarkerName(rows, l1) \o MarkerName(rows, l2) \o MarkerName(rows, l3)

\* an item as the claim types it: an integer when int() takes it, else a string
TypedItem(item) ==
    IF py_int(item).ok THEN PyInt(py_int(item).value)
    ELSE PyStr(str_strip(item, "\""))

TypedValue(row) ==
    LET items == ItemsOf(row)
    IN  IF Len(items) = 1 THEN TypedItem(items[1])
        ELSE PyList([k \in 1 .. Len(items) |-> TypedItem(items[k])])

s_ID == <<"I", "D">>

s_Val == <<"V", "a", "l">>

\* C11: when get_header returns, every assignment row key = v1[,v2...] is in
\* the mapping under the section path in effect at the row, an item that
\* int() takes as an integer and any other as a string, one item as a scalar
\* and more as a list in their order; $Common, $$ID, Val = 123 gives
\* Common.ID.Val == 123.
C11_HeaderValueTyping ==
    (g_op = "get_header" /\ g_pc = "done") =>
        /\ \A r \in 1 .. Len(header_rows) :
              IsAssignment(header_rows[r]) =>
                  /\ HasKey(g_ret, SectionPathAt(header_rows, r), KeyOf(header_rows[r]))
                  /\ PyEq(GetKey(g_ret, SectionPathAt(header_rows, r), KeyOf(header_rows[r])),
                          TypedValue(header_rows[r]))
        /\ Len(g_ret.entries)
              = Cardinality({r \in 1 .. Len(header_rows) : IsAssignment(header_rows[r])})
        /\ (\E r \in 3 .. Len(header_rows) :
                /\ header_rows[r - 2] = << "$" >> \o s_Common
                /\ header_rows[r - 1] = << "$", "$" >> \o s_ID
                /\ header_rows[r] = s_Val \o << "=", "1", "2", "3" >>)
              => PyEq(GetKey(g_ret, << s_Common, s_ID >>, s_Val), PyInt(123))

\* the header of the example: HeaderSiz = 4096, $Common, $$ID, Val = 123
C11_Witness ==
    /\ g_op = "get_header"
    /\ g_pc = "done"
    /\ Len(header_rows) = 4
    /\ Len(g_ret.entries) = 2
    /\ HasKey(g_ret, << s_Common, s_ID >>, s_Val)
    /\ PyEq(GetKey(g_ret, << s_Common, s_ID >>, s_Val), PyInt(123))
    /\ PyEq(GetKey(g_ret, << >>, s_HeaderSiz), PyInt(4096))

\* the row is neither a section marker nor an assignment
Unrecognized(row) == ~IsMarker(row) /\ ~IsAssignment(row)

FirstUnrecognized(rows) ==
    CHOOSE r \in 1 .. Len(rows) :
        Unrecognized(rows[r]) /\ \A q \in 1 .. r - 1 : ~Unrecognized(rows[q])

\* C12: when a row of the header is neither a section marker nor an
\* assignment, get_header does not return: it ends in a ValueError at that row
\* or earlier, with no mapping, and goes past no such row.
C12_UnrecognizedRowFails ==
    (g_op = "get_header" /\ \E r \in 1 .. Len(header_rows) : Unrecognized(header_rows[r])) =>
        /\ g_pc \in {"gh_for", "raised"}
        /\ g_ret = NoValue
        /\ g_row < FirstUnrecognized(header_rows)
        /\ Len(toml_rows) < FirstUnrecognized(header_rows)
        /\ g_pc = "raised" => g_err = "ValueError"

\* two good rows, then a row without "=": ValueError at the third row
C12_Witness ==
    /\ g_op = "get_header"
    /\ g_pc = "raised"
    /\ g_err = "ValueError"
    /\ Len(header_rows) = 4
    /\ g_row = 2
    /\ Unrecognized(header_rows[3])
    /\ \A r \in {1, 2, 4} : ~Unrecognized(header_rows[r])

\* the first page holds a declaration "HeaderSiz = <digits>"
Declared(s) ==
    \E p \in 1 .. Len(s) :
        \E w1, w2 \in 1 .. Len(s) :
            /\ StartsWithAt(s, p, s_HeaderSiz)
            /\ \A k \in 0 .. w1 - 1 : p + 9 + k <= Len(s) /\ s[p + 9 + k] \in SpaceChars
            /\ p + 9 + w1 <= Len(s) /\ s[p + 9 + w1] = "="
            /\ \A k \in 1 .. w2 : p + 9 + w1 + k <= Len(s) /\ s[p + 9 + w1 + k] \in SpaceChars
            /\ p + 10 + w1 + w2 <= Len(s) /\ s[p + 10 + w1 + w2] \in DigitChars

\* C13, as claimed: get_header_size returns the integer declared in the first
\* 2048 bytes, always a multiple of 2048, and fails when the first page holds
\* no declaration.
C13_HeaderSizeLookup ==
    (g_op = "get_header_size" /\ g_pc \in {"done", "raised"}) =>
        IF Declared(read_text(gbd, 2048))
        THEN g_pc = "done" /\ g_ret % 2048 = 0
        ELSE g_pc = "raised" /\ g_ret = NoValue

(***************************************************************************)
(* Properties of get_data and its helper features                          *)
(***************************************************************************)
\* get_data_scales has been called: get_data is past line 187, or ended in it
\* or after it
ScalesCalled ==
    /\ g_op = "get_data"
    /\ \/ g_pc \in {"gd_index", "gd_reader", "gd_open", "gd_for", "done"}
       \/ g_pc = "raised" /\ units # NoValue

\* the channels: the names the loops of the helper features go through
NChannels == Len(py_iter(names))

Chan(j) == py_iter(names)[j]

\* the channel has a row in $Amp that holds a type and a range
HasAmp(j) ==
    /\ Chan(j).t = "str"
    /\ HasKey(header, << s_Amp >>, Chan(j).v)
    /\ GetKey(header, << s_Amp >>, Chan(j).v).t = "list"
    /\ Len(GetKey(header, << s_Amp >>, Chan(j).v).v) >= 3

TypeOf(j) == GetKey(header, << s_Amp >>, Chan(j).v).v[2]

RangeOf(j) == GetKey(header, << s_Amp >>, Chan(j).v).v[3]

IsTemperature(j) == HasAmp(j) /\ PyItemEq(TypeOf(j), PyStr(s_TEMP))

NonTemperature(j) == HasAmp(j) /\ ~PyItemEq(TypeOf(j), PyStr(s_TEMP))

HasRange(j, r) == PyItemEq(RangeOf(j), PyStr(r))

HasUnit(j, u) == PyItemEq(units[j], PyStr(u))

\* a channel whose range is none of the sixteen
Rejected(j) == NonTemperature(j) /\ (RangeOf(j).t # "str" \/ RangeOf(j).v \notin Ranges)

s_20mV == <<"2", "0", "m", "V">>

s_5V == <<"5", "V">>

s_7V == <<"7", "V">>

\* C14 as claimed: a channel that is no temperature channel has scale 2000
\* with range "20mV" and unit "mV", and scale 5000 with range "5V" and unit "V"
C14_ScaleTable ==
    (ScalesCalled /\ \A j \in 1 .. NChannels : ~Rejected(j)) =>
        /\ scales # NoValue
        /\ \A j \in 1 .. NChannels :
              NonTemperature(j) =>
                  /\ (HasRange(j, s_20mV) /\ HasUnit(j, s_mV)) => scales[j] = 2000
                  /\ (HasRange(j, s_5V) /\ HasUnit(j, s_V)) => scales[j] = 5000

\* C14: for a channel that is no temperature channel, get_data_scales yields
\* scale 1000 for range "20mV" with unit "mV", and scale 4000 for range "5V"
\* with unit "V"
C14_ScaleTableOfCode ==
    (ScalesCalled /\ \A j \in 1 .. NChannels : ~Rejected(j)) =>
        /\ scales # NoValue
        /\ \A j \in 1 .. NChannels :
              NonTemperature(j) =>
                  /\ (HasRange(j, s_20mV) /\ HasUnit(j, s_mV)) => scales[j] = 1000
                  /\ (HasRange(j, s_5V) /\ HasUnit(j, s_V)) => scales[j] = 4000

\* a file whose first channel has range "20mV" and unit "mV": its scale is 1000
C14_Witness ==
    /\ ScalesCalled
    /\ names.t = "list"
    /\ NonTemperature(1)
    /\ HasRange(1, s_20mV)
    /\ HasUnit(1, s_mV)
    /\ scales # NoValue
    /\ scales[1] = 1000

\* C15: every channel whose type is temperature has scale 10, whatever its
\* range and its unit, a range that a voltage channel is rejected for included
C15_TemperatureScale ==
    (ScalesCalled /\ \A j \in 1 .. NChannels : ~Rejected(j)) =>
        /\ scales # NoValue
        /\ \A j \in 1 .. NChannels : IsTemperature(j) => scales[j] = 10

\* a temperature channel of range "7V" has scale 10
C15_Witness ==
    /\ ScalesCalled
    /\ names.t = "list"
    /\ IsTemperature(1)
    /\ HasRange(1, s_7V)
    /\ scales # NoValue
    /\ scales[1] = 10

\* the scale of the range before the unit correction, in hundredths
BaseHundredths(r) == digit_factor(r) * range_factor(r)

C17_UnrecognizedRangeFails ==
    (ScalesCalled /\ \E j \in 1 .. NChannels : Rejected(j)) =>
        /\ g_pc = "raised"
        /\ scales = NoValue
        /\ (\A j \in 1 .. NChannels : Rejected(j) => RangeOf(j).t = "str")
              => g_err = "ValueError"

\* get_data_scales failed on a channel of range "7V"
C17_Witness ==
    /\ ScalesCalled
    /\ names.t = "list"
    /\ NonTemperature(1)
    /\ HasRange(1, s_7V)
    /\ g_pc = "raised"
    /\ g_err = "ValueError"
    /\ scales = NoValue

\* the row of the header that sets key in the section path, or 0
RowOf(path, key) ==
    LET J == {r \in 1 .. Len(header_rows) :
                 /\ IsAssignment(header_rows[r])
                 /\ KeyOf(header_rows[r]) = key
                 /\ SectionPathAt(header_rows, r) = path}
    IN  IF J = {} THEN 0 ELSE CHOOSE r \in J : TRUE

\* the channels of the file: the items of Order in $Common $$Data
OrderNames ==
    IF RowOf(<< s_Common, s_Data >>, s_Order) = 0 THEN << >>
    ELSE ItemsOf(header_rows[RowOf(<< s_Common, s_Data >>, s_Order)])

\* the field of a channel name: signed 16-bit (h), unsigned 32-bit (L),
\* unsigned 16-bit (H), or none (?)
FieldOf(name) ==
    IF Contains(name, s_CH) THEN "h"
    ELSE IF Contains(name, s_Pulse) THEN "L"
    ELSE IF \E w \in {s_Logic, s_Alarm, s_AlOut, s_Status} : Contains(name, w) THEN "H"
    ELSE "?"

\* get_data_reader has been called: get_data is past line 190, or ended in it
\* or after it
ReaderCalled ==
    /\ g_op = "get_data"
    /\ \/ g_pc \in {"gd_open", "gd_for", "done"}
       \/ g_pc = "raised" /\ scales # NoValue /\ ~get_data_index(header).raised

\* C18: the record get_data_reader builds is big-endian and has one field per
\* channel of Common.Data.Order, in that order: signed 16-bit for a name with
\* "CH", unsigned 32-bit for "Pulse", unsigned 16-bit for "Logic", "Alarm",
\* "AlOut" or "Status"; with a name of none of these, "Foo" for one, it fails
\* with an error and there is no reader
C18_RecordLayout ==
    ReaderCalled =>
        IF \A k \in 1 .. Len(OrderNames) : FieldOf(OrderNames[k]) # "?"
        THEN format_ = << ">" >> \o [k \in 1 .. Len(OrderNames) |-> FieldOf(OrderNames[k])]
        ELSE g_pc = "raised" /\ g_err = "ValueError" /\ format_ = NoValue

\* the sampling intervals pandas knows, in milliseconds
Samplings ==
    { [text |-> s_10ms, step |-> 10],
      [text |-> <<"1", "0", "L">>, step |-> 10],
      [text |-> <<"1", "s">>, step |-> 1000],
      [text |-> <<"5", "m", "s">>, step |-> 5] }

\* the starts, as a date and the milliseconds since its midnight
Starts ==
    { [text |-> Midnight2020, date |-> <<"2", "0", "2", "0", "-", "0", "1", "-", "0", "1">>, ms |-> 0],
      [text |-> TestStart, date |-> <<"2", "0", "2", "0", "-", "1", "1", "-", "2", "3">>, ms |-> 34800000],
      [text |-> YearEnd, date |-> <<"2", "0", "2", "0", "-", "1", "2", "-", "3", "1">>, ms |-> 86399000] }

\* the files get_data has to decode: channels of known names and ranges, the
\* payload whole, each with what was written into it
WholeFiles ==
    { [file    |-> DataFile(chs, n, s.text, st.text, p, 0),
       chs     |-> chs,
       counts  |-> n,
       step    |-> s.step,
       date    |-> st.date,
       ms      |-> st.ms,
       pattern |-> p] :
          chs \in {<< CH1, Status >>, << CH1mV, Pulse1, Status >>, << CH1 >>},
          n \in 0 .. MaxCounts, s \in Samplings, st \in Starts,
          p \in {"rising", "falling"} }

\* the scale of a channel of WholeFiles: 2000 for range 10V and for 10mV, 1
\* for a channel without a row in $Amp
ScaleOfChannel(ch) == IF Len(ch.amp) > 0 THEN 2000 ELSE 1

\* C19: get_data returns a table of Counts rows; row i (from 0) has the time
\* stamp Start + i * Sample and for each channel the value raw_i / scale, raw_i
\* the field of the channel in the i-th record after the header; with Counts 2,
\* Start 2020-01-01 00:00:00, Sample 10 ms and raw values 100 and 200 at scale
\* 2000 the stamps are 00:00:00.000 and 00:00:00.010, the values 0.05 and 0.10
C19_DecodedTable ==
    \A c \in WholeFiles :
        (g_op = "get_data" /\ gbd = c.file /\ g_pc \in {"done", "raised"}) =>
            /\ g_pc = "done"
            /\ Len(g_ret.values) = c.counts
            /\ Len(g_ret.index) = c.counts
            /\ \A k \in 1 .. c.counts :
                  /\ g_ret.index[k].date = c.date
                  /\ g_ret.index[k].days * MsPerDay + g_ret.index[k].ms
                        = c.ms + (k - 1) * c.step
                  /\ Len(g_ret.values[k]) = Len(c.chs)
                  /\ \A j \in 1 .. Len(c.chs) :
                        g_ret.values[k][j].num * ScaleOfChannel(c.chs[j])
                            = Measured(c.chs[j], c.pattern, k) * g_ret.values[k][j].den
            /\ (c.counts = 2 /\ c.pattern = "rising" /\ c.ms = 0 /\ c.step = 10) =>
                  /\ g_ret.index[1].ms = 0 /\ g_ret.index[2].ms = 10
                  /\ g_ret.values[1][1] = [num |-> 1, den |-> 20]
                  /\ g_ret.values[2][1] = [num |-> 1, den |-> 10]

\* the unit of a channel in $Measure $$Scale: the seventh item of its row, or
\* None when it has no row there
UnitText(name) ==
    IF RowOf(<< s_Measure, s_Scale >>, name) = 0 THEN << "N", "o", "n", "e" >>
    ELSE ItemsOf(header_rows[RowOf(<< s_Measure, s_Scale >>, name)])[7]

\* C20: the table get_data returns has one column per channel of
\* Common.Data.Order, in that order, named "<name> (<unit>)" with the unit of
\* the channel in Measure.Scale and "<name> (None)" for a channel without one
C20_ColumnNames ==
    (g_op = "get_data" /\ g_pc = "done") =>
        /\ Len(g_ret.columns) = Len(OrderNames)
        /\ \A k \in 1 .. Len(OrderNames) :
              g_ret.columns[k]
                  = OrderNames[k] \o << " ", "(" >> \o UnitText(OrderNames[k]) \o << ")" >>

\* a table of seven columns, "CH1 (V)" the first and "Status (None)" the last
C20_Witness ==
    /\ g_op = "get_data"
    /\ g_pc = "done"
    /\ Len(g_ret.columns) = 7
    /\ g_ret.columns[1] = <<"C", "H", "1", " ", "(", "V", ")">>
    /\ g_ret.columns[7] = <<"S", "t", "a", "t", "u", "s", " ", "(", "N", "o", "n", "e", ")">>

\* the number a range starts with: 20 of "20mV", 5 of "5V"
Magnitude(r) == IntOfDigits(SubSeq(r, 1, RunIn(r, 1, DigitChars)))

\* the multiplier that goes with the first character of a range
LeadingDigitFactor(r) ==
    IF Len(r) = 0 THEN 0
    ELSE IF r[1] = "1" THEN 2
    ELSE IF r[1] = "2" THEN 1
    ELSE IF r[1] = "4" THEN 5
    ELSE IF r[1] = "5" THEN 4
    ELSE 0

\* C30: for each of the sixteen ranges get_data_scales takes for a channel that
\* is no temperature channel, the scale times the number of the range, in the
\* unit of the range, is 20000, and the multiplier of the digit found by
\* containment is that of the leading digit; a range that starts with 4 is
\* rejected
C30_FullScale ==
    /\ (ScalesCalled /\ \A j \in 1 .. NChannels : ~Rejected(j)) =>
          /\ scales # NoValue
          /\ \A j \in 1 .. NChannels :
                NonTemperature(j) =>
                    /\ scales[j] * Magnitude(RangeOf(j).v) = 20000
                    /\ digit_factor(RangeOf(j).v) = LeadingDigitFactor(RangeOf(j).v)
    /\ (ScalesCalled /\ \E j \in 1 .. NChannels :
                            /\ NonTemperature(j)
                            /\ RangeOf(j).t = "str"
                            /\ Len(RangeOf(j).v) >= 1
                            /\ RangeOf(j).v[1] = "4") =>
          g_pc = "raised" /\ scales = NoValue

\* a channel of range "500mV": scale 40, and 40 * 500 = 20000
C30_Witness ==
    /\ ScalesCalled
    /\ names.t = "list"
    /\ NonTemperature(1)
    /\ HasRange(1, <<"5", "0", "0", "m", "V">>)
    /\ scales # NoValue
    /\ scales[1] = 40

(***************************************************************************)
(* Properties of weather.convert                                           *)
(***************************************************************************)
\* C21: for every row (t, wind_speed, wind_direction) of the input CSV the
\* store written by convert has exactly one sample at t - 9 h, with the wind
\* speed and direction of the row, and the store has as many samples as the
\* CSV has rows, also when rows of different times hold the same values
C21_EveryRowKept ==
    (wx_pc = "done" /\ Len(wx_csv) = 1) =>
        /\ Len(wx_dest.samples) = Len(wx_csv[1])
        /\ \A r \in 1 .. Len(wx_csv[1]) :
              /\ Cardinality({k \in 1 .. Len(wx_dest.samples) :
                                 wx_dest.samples[k].t = wx_csv[1][r].t - 9 * 60}) = 1
              /\ \E k \in 1 .. Len(wx_dest.samples) :
                    /\ wx_dest.samples[k].t = wx_csv[1][r].t - 9 * 60
                    /\ wx_dest.samples[k].wind_speed = wx_csv[1][r].wind_speed
                    /\ wx_dest.samples[k].wind_direction = wx_csv[1][r].wind_direction

\* the name of a marker row: what follows its "$"s
NameOf(row) == Tail_(row, Dollars(row))

\* C23: while get_header goes through the rows the section list has exactly 3
\* elements; a marker of depth 1 sets it to [name, "", ""], one of depth 2
\* puts the name in element 2 and clears element 3, element 1 as it was, one
\* of depth 3 replaces element 3 only; an assignment leaves the list as it
\* was; a marker of depth 4 or more is rejected with an error
C23_SectionStack ==
    /\ [](g_pc = "gh_for" => Len(section) = 3)
    /\ [][(g_pc = "gh_for" /\ g_row < Len(header_rows)) =>
            LET row == header_rows[g_row + 1]
            IN  IF IsMarker(row)
                THEN CASE Dollars(row) = 1 ->
                            g_pc' = "gh_for" /\ section' = << NameOf(row), << >>, << >> >>
                       [] Dollars(row) = 2 ->
                            g_pc' = "gh_for" /\ section' = << section[1], NameOf(row), << >> >>
                       [] Dollars(row) = 3 ->
                            g_pc' = "gh_for" /\ section' = << section[1], section[2], NameOf(row) >>
                       [] OTHER ->
                            g_pc' = "raised" /\ g_err' = "ValueError" /\ section' = section
                ELSE IsAssignment(row) => (g_pc' = "gh_for" /\ section' = section)]_vars

\* after the rows $$$Sub and $$ID: element 2 is set, element 3 cleared again
C23_Witness ==
    /\ g_pc = "gh_for"
    /\ g_row = 3
    /\ header_rows[2] = <<"$", "$", "$", "S", "u", "b">>
    /\ header_rows[3] = <<"$", "$", "I", "D">>
    /\ section = << << >>, s_ID, << >> >>

(***************************************************************************)
(* The chunk commits of to_zarr                                            *)
(***************************************************************************)
IsWrite(e) == e[1] = "write"

\* the store writes of the call so far, in the order they were made
Commits == SelectSeq(io, IsWrite)

InToZarr == args.op = "to_zarr" /\ pc # "idle"

\* C29: the commits partition the unit axis. During to_zarr the k-th group of
\* three store writes is the slice [k*c, (k+1)*c) of vdif_head, corr_head and
\* corr_data, in that order; the lists in memory never hold more than c
\* units; and when the call has returned the slices written are those of
\* i = 0 .. n_chunks - 1, they cover 0 .. n_units - 1, and the read position
\* is the end of the source.
C29_ChunkPartition ==
    InToZarr =>
        LET c == n_units_per_chunk
        IN  /\ \A k \in 1 .. Len(Commits) :
                  Commits[k] = <<"write", ArrayNames[((k - 1) % 3) + 1],
                                 ((k - 1) \div 3) * c,
                                 ((k - 1) \div 3 + 1) * c>>
            /\ Len(vdif_head) <= c
            /\ Len(corr_head) <= c
            /\ Len(corr_data) <= c
            /\ pc = "tz_done" =>
                  /\ Len(Commits) = 3 * n_chunks
                  /\ n_chunks * c = n_units
                  /\ f_pos = vdif_file.size
                  /\ \A u \in 0 .. n_units - 1 : \A x \in 1 .. 3 :
                        Cardinality({k \in 1 .. Len(Commits) :
                                        /\ Commits[k][2] = ArrayNames[x]
                                        /\ Commits[k][3] <= u
                                        /\ u < Commits[k][4]}) = 1

\* a returned call that committed two chunks or more, of two units or more
C29_Witness ==
    /\ pc = "tz_done"
    /\ args.op = "to_zarr"
    /\ n_chunks >= 2
    /\ n_units_per_chunk >= 2
    /\ Len(Commits) = 3 * n_chunks

(***************************************************************************)
(* The writes of to_vdif                                                   *)
(***************************************************************************)
InToVdif == args.op = "to_vdif"

\* the f.write calls of the call so far, in the order they were made
FileWrites == SelectSeq(io, IsWrite)

OutputOpened == \E k \in 1 .. Len(io) : io[k] = <<"open_w", "path_vdif">>

SubRecordBytes == << 32, 256, 1024 >>

RECURSIVE SumOfWrites(_)
SumOfWrites(w) == IF w = << >> THEN 0 ELSE w[1][5] + SumOfWrites(Tail(w))

\* C24: the write order of to_vdif. The k-th write of a call is sub-record
\* (k mod 3) of unit (k div 3): the head (32 bytes), the meta (256 bytes) and
\* the samples (1024 bytes) of unit 0, then those of unit 1, and so on. The
\* output holds the bytes written and no other, 1312 bytes for each unit
\* written, and 1312 bytes for each unit of the store when the call has
\* returned.
C24_WriteOrder ==
    InToVdif =>
        /\ \A k \in 1 .. Len(FileWrites) :
              FileWrites[k] = <<"write", "path_vdif",
                                ArrayNames[((k - 1) % 3) + 1],
                                (k - 1) \div 3,
                                SubRecordBytes[((k - 1) % 3) + 1]>>
        /\ OutputOpened =>
              /\ Len(out_file.bytes) = SumOfWrites(FileWrites)
              /\ pc = "tv_for" => Len(out_file.bytes) = 1312 * i
              /\ pc = "tv_write" =>
                    Len(out_file.bytes)
                        = 1312 * i + SumOfWrites(SubSeq(FileWrites, 1, a - 1))
        /\ pc = "tv_done" =>
              /\ Len(out_file.bytes) = 1312 * zarr.arrays["vdif_head"].shape
              /\ Len(out_file.bytes) = 1312 * n_units

\* a call that has written the head and the meta of its second unit over an
\* output that existed
C24_Witness ==
    /\ InToVdif
    /\ pc = "tv_write"
    /\ i = 1
    /\ a = 3
    /\ dest0 = OldFile
    /\ Len(out_file.bytes) = 1312 + 32 + 256

(***************************************************************************)
(* What a call reads and leaves, as functions of the source and of         *)
(* seconds_per_chunk alone                                                 *)
(***************************************************************************)
IsRead(e) == e[1] = "read"

\* the f.read calls of the call so far, in the order they were made
Reads == SelectSeq(io, IsRead)

SubRecordOffset == << 0, 32, 288 >>

\* the store to_zarr leaves for a source file, with chunks of c units
StoreOf(file, c) ==
    [exists |-> TRUE,
     arrays |->
        [n \in {"vdif_head", "corr_head", "corr_data"} |->
            [shape |-> file.size \div 1312,
             chunks |-> c,
             rows |-> [k \in 0 .. (file.size \div 1312) - 1 |->
                         CASE n = "vdif_head" ->
                                reader(N_ROWS_VDIF_HEAD, UINT, file, 1312 * k).tuple
                           [] n = "corr_head" ->
                                reader(N_ROWS_CORR_HEAD, UINT, file, 1312 * k + 32).tuple
                           [] n = "corr_data" ->
                                reader(N_ROWS_CORR_DATA, SHORT, file, 1312 * k + 288).tuple]]]]

\* byte o of the file to_vdif leaves for a store
ByteOf(z, o) ==
    LET k == o \div 1312
        r == o % 1312
        x == IF r < 32 THEN 1 ELSE IF r < 288 THEN 2 ELSE 3
        q == r - SubRecordOffset[x]
        v == z.arrays[ArrayNames[x]].rows[k][(q \div ItemSize(ArrayDtype[x])) + 1]
    IN  item_bytes(v, ArrayDtype[x])[(q % ItemSize(ArrayDtype[x])) + 1]

\* C22: progress does not interfere. Whatever progress is, a to_zarr call
\* reads sub-record (k mod 3) of unit (k div 3) as its k-th read, commits the
\* slices of chunk 0, 1, ... of the three arrays in that order, and returns
\* with the store that the source and seconds_per_chunk determine; and a
\* to_vdif call returns with the file that the store determines.
C22_ProgressNonInterference ==
    /\ InToZarr =>
          /\ \A k \in 1 .. Len(Reads) :
                Reads[k] = <<"read", "path_vdif",
                             1312 * ((k - 1) \div 3) + SubRecordOffset[((k - 1) % 3) + 1],
                             SubRecordBytes[((k - 1) % 3) + 1]>>
          /\ \A k \in 1 .. Len(Commits) :
                Commits[k] = <<"write", ArrayNames[((k - 1) % 3) + 1],
                               ((k - 1) \div 3) * n_units_per_chunk,
                               ((k - 1) \div 3 + 1) * n_units_per_chunk>>
          /\ pc = "tz_done" =>
                /\ Len(Reads) = 3 * (vdif_file.size \div 1312)
                /\ Len(Commits) * n_units_per_chunk = 3 * (vdif_file.size \div 1312)
                /\ zarr = StoreOf(vdif_file, n_units_per_chunk)
    /\ (InToVdif /\ pc = "tv_done") =>
          /\ out_file.exists
          /\ Len(out_file.bytes) = 1312 * zarr.arrays["vdif_head"].shape
          /\ \A o \in 0 .. Len(out_file.bytes) - 1 :
                out_file.bytes[o + 1] = ByteOf(zarr, o)

\* a to_vdif call with the bar shown that has returned, on a store of two
\* chunks or more
C22_Witness ==
    /\ InToVdif
    /\ pc = "tv_done"
    /\ args.progress
    /\ zarr.arrays["vdif_head"].chunks < zarr.arrays["vdif_head"].shape

(***************************************************************************)
(* Short reads                                                             *)
(***************************************************************************)
\* the size of a record of the payload, once the reader is made
RecordSize == struct_size(Tail(format_))

\* the read loop of get_data is at a record the payload does not hold whole
AtShortRecord ==
    /\ g_op = "get_data"
    /\ g_pc = "gd_for"
    /\ g_i < length_
    /\ Len(gbd.payload) - g_i * RecordSize < RecordSize

\* the sub-record x of the unit that follows the whole units of a file
LastPos(file, x) == 1312 * (file.size \div 1312) + SubRecordOffset[x]

ArrayRows == << N_ROWS_VDIF_HEAD, N_ROWS_CORR_HEAD, N_ROWS_CORR_DATA >>

\* C27: a short read is fatal. The reader of the correlator, on a file that
\* ends before the sub-record it reads, fails and returns no tuple. In
\* get_data, a read at a record the payload does not hold whole ends the call
\* with struct.error and leaves the table as it was; every row read so far
\* was whole in the payload and has one value per field of the format; and a
\* returned table has Counts rows, all of them whole in the payload.
C27_ShortReadFatal ==
    /\ [](g_pc = "idle" =>
            \A file \in SourceFiles : \A x \in 1 .. 3 :
                file.size - LastPos(file, x) < SubRecordBytes[x] =>
                    LET r == reader(ArrayRows[x], ArrayDtype[x], file,
                                    Min(LastPos(file, x), file.size))
                    IN  r.error /\ r.tuple = << >>)
    /\ []((g_op = "get_data" /\ g_pc \in {"gd_for", "done"}) =>
            /\ g_i * RecordSize <= Len(gbd.payload)
            /\ \A k \in 1 .. g_i : Len(data[k]) = Len(format_) - 1
            /\ g_pc = "done" =>
                  /\ g_i = length_
                  /\ Len(g_ret.values) = length_)
    /\ [][AtShortRecord =>
            /\ g_pc' = "raised"
            /\ g_err' = "struct.error"
            /\ data' = data
            /\ g_ret' = g_ret]_vars

\* the loop of get_data stopped by a short record, after a whole one was read
C27_Witness ==
    /\ g_op = "get_data"
    /\ g_pc = "raised"
    /\ g_err = "struct.error"
    /\ g_i >= 1
    /\ Len(gbd.payload) > g_i * RecordSize
    /\ Len(gbd.payload) < (g_i + 1) * RecordSize

\* the payload holds fewer bytes than Counts records, the reader being made
PayloadShort ==
    /\ g_op = "get_data"
    /\ format_ # NoValue
    /\ Len(gbd.payload) < length_ * RecordSize

\* C26: truncation is detected up front. When the payload holds fewer bytes
\* than Counts records, get_data never enters its read loop and reads no
\* record: the call has failed before, and not with the error of a short read.
C26_UpFrontSizeCheck ==
    PayloadShort =>
        /\ g_pc # "gd_for"
        /\ g_i = 0
        /\ g_err # "struct.error"

(***************************************************************************)
(* The phases of get_data                                                  *)
(***************************************************************************)
\* the phases in the order of the code: header (line 183), names and units
\* (185-186), scales (187), length and index (188-189), reader (190), payload
\* (192-199), table (201-204)
PhaseOfCode(p) ==
    CASE p \in {"gh_read", "gh_for"} -> 1
      [] p = "gd_names" -> 2
      [] p = "gd_scales" -> 3
      [] p = "gd_index" -> 4
      [] p = "gd_reader" -> 5
      [] p \in {"gd_open", "gd_for"} -> 6
      [] p \in {"done", "written"} -> 7
      [] OTHER -> 0

\* the phases with length and index derived along with the names, before the
\* scales
PhaseOfOrder(p) ==
    CASE p \in {"gh_read", "gh_for"} -> 1
      [] p \in {"gd_names", "gd_index"} -> 2
      [] p = "gd_scales" -> 3
      [] p = "gd_reader" -> 4
      [] p \in {"gd_open", "gd_for"} -> 5
      [] p \in {"done", "written"} -> 6
      [] OTHER -> 0

InGetData == g_op = "get_data" /\ g_pc \notin {"idle", "off"}

\* what holds of a call whatever the order of its phases: the payload is read
\* once every earlier phase has succeeded, an error ends the call for good,
\* and the destination is written by a call that returned only
FailFast ==
    /\ [](InGetData =>
            /\ (g_pc = "gd_for" \/ g_i > 0) =>
                  /\ header # NoValue
                  /\ ~get_data_names(header).raised
                  /\ ~get_data_units(header).raised
                  /\ ~get_data_scales(header).raised
                  /\ ~get_data_length(header).raised
                  /\ ~get_data_index(header).raised
                  /\ ~get_data_reader(header).raised
                  /\ ~get_header_size(gbd).raised
            /\ g_pc = "raised" => (g_err # "none" /\ g_ret = NoValue)
            /\ dest # NoDest => g_pc = "written")
    /\ [][(InGetData /\ g_pc = "raised") => g_pc' = "raised"]_vars
    /\ [][(InGetData /\ dest' # dest) => (g_pc = "done" /\ g_ret # NoValue)]_vars

\* C25 as stated: the phases of get_data run in the order header, channel
\* names with length and index, scales, record layout, payload; the payload is
\* read once every earlier phase has succeeded, an error ends the call for
\* good, and to_zarr writes nothing when get_data fails.
C25_PhasesLengthBeforeScales ==
    /\ FailFast
    /\ [][InGetData =>
            \/ g_pc' = "raised"
            \/ PhaseOfOrder(g_pc') \in {PhaseOfOrder(g_pc), PhaseOfOrder(g_pc) + 1}]_vars

\* C25, amended: the phases of get_data run in the order header, channel names
\* and units, scales, length and index, record layout, payload; the payload is
\* read once every earlier phase has succeeded, an error ends the call for
\* good, and to_zarr writes nothing when get_data fails.
C25_PhasesOfCode ==
    /\ FailFast
    /\ [][InGetData =>
            \/ g_pc' = "raised"
            \/ PhaseOfCode(g_pc') \in {PhaseOfCode(g_pc), PhaseOfCode(g_pc) + 1}]_vars

\* a file whose range and whose sampling interval are both unknown: the call
\* has ended in the scales, nothing derived of length and index, nothing
\* written
C25_Witness ==
    /\ g_op = "get_data"
    /\ g_pc = "raised"
    /\ names # NoValue
    /\ scales = NoValue
    /\ get_data_scales(header).raised
    /\ get_data_index(header).raised
    /\ g_err = get_data_scales(header).error
    /\ index = NoValue
    /\ dest = NoDest

(***************************************************************************)
(* The complex array of convert                                            *)
(***************************************************************************)
\* sample q of the concatenated samples of the 64 units of scan s
ScanSample(r, s, q) ==
    DataWord(r, N_UNITS_PER_SCAN * s + (q \div 512), q % 512)

\* the scans whose samples are compared: the first and the last
ProbedScans(n) == {s \in {0, n - 1} : s >= 0}

\* C28: the complex array of convert. Once convert has made its arrays,
\* correlator has one row per 64 units of the raw store and 8192 columns, and
\* element j of the row of scan s has the 16-bit value 2j of the concatenated
\* samples of the scan as its real part and the value 2j + 1 as its imaginary
\* part: the first 8192 of the 16384 pairs of the scan, in their order.
C28_ComplexArray ==
    cv_pc \in {"cv_write", "cv_done"} =>
        /\ correlator.shape = << raw.n_units \div 64, 8192 >>
        /\ \A s \in ProbedScans(correlator.shape[1]) :
              \A j \in 0 .. correlator.shape[2] - 1 :
                 correlator_at(raw, s, j)
                    = [re |-> ScanSample(raw, s, 2 * j),
                       im |-> ScanSample(raw, s, 2 * j + 1)]

\* a store of two scans or more converted, the last pair kept of a scan having
\* a negative part
C28_Witness ==
    /\ cv_pc = "cv_done"
    /\ correlator.shape[1] >= 2
    /\ correlator.shape[2] = 8192
    /\ \E j \in {0, 8191} : correlator_at(raw, 1, j).re < 0

====
